---- MODULE Spec2Model ----
(***************************************************************************)
(* Model of the face-detection service: the domain entities, the           *)
(* serialization service, the age-range policy of the DeepFace analyzers,  *)
(* the MTCNN face detector's threshold and filter, the detection           *)
(* orchestrator (FaceDetectionUseCase) with detect_and_annotate, and the   *)
(* /detect and /detect-and-annotate handlers of the Flask and FastAPI      *)
(* applications.                                                           *)
(*                                                                         *)
(* Specifications: Spec (one detection call at a time), AgeSpec and        *)
(* SerSpec (age policy, serialization), CropSpec (face-region slicing),    *)
(* ValSpec (ValidationService), IdemSpec (two equal calls in a row),       *)
(* RaceSpec (two threads sharing one detector), AnnotateSpec (one          *)
(* detect_and_annotate call), ApiSpec (HTTP requests end to end), TempSpec *)
(* (one DeepFace analyzer call and its temporary file) and ThrSpec (the    *)
(* threshold a call leaves for a later call).                              *)
(*                                                                         *)
(* Units: confidences and thresholds are integers in tenths (0.5 is 5);    *)
(* estimated ages are integers in 1/AgeScale years; pixel coordinates are  *)
(* integers (the detector backends emit integer boxes).                    *)
(***************************************************************************)
EXTENDS Integers, Sequences, FiniteSets, TLC

\* ------------------------------------------------------------------ bounds
MaxAge == 130
AgeScale == 4
MaxFaces == 2
MaxSerFaces == 2

\* ------------------------------------------------------- program constants
ThrMin == 0
ThrMax == 10
DefaultThreshold == 5
MinFaceDim == 10

\* ------------------------------------------------------------ Python glue
None == [kind |-> "None"]

IsNone(v) == v.kind = "None"

Max2(a, b) == IF a >= b THEN a ELSE b

Min2(a, b) == IF a <= b THEN a ELSE b

\* int(x) of a float x given in 1/AgeScale units: truncation toward zero
IntTrunc(x) == IF x >= 0 THEN x \div AgeScale ELSE -((-x) \div AgeScale)

\* ------------------------------------------------------- domain entities
EmotionResult(emotion, confidence) ==
    [kind |-> "EmotionResult", emotion |-> emotion, confidence |-> confidence]

AgeResult(age, age_range) ==
    [kind |-> "AgeResult", age |-> age, age_range |-> age_range]

FaceDetection(bbox, confidence, landmarks, emotion, age) ==
    [bbox |-> bbox, confidence |-> confidence, landmarks |-> landmarks,
     emotion |-> emotion, age |-> age]

get_width(face) == face.bbox[3] - face.bbox[1]

get_height(face) == face.bbox[4] - face.bbox[2]

get_area(face) == get_width(face) * get_height(face)

DetectionResult(image_path, faces, processing_time, original_image_size) ==
    [image_path |-> image_path, faces |-> faces,
     processing_time |-> processing_time,
     original_image_size |-> original_image_size]

get_face_count(result) == Len(result.faces)

\* an off-by-one in the emptiness test
has_faces_more_than_one(result) == Len(result.faces) > 1

has_faces(result) == Len(result.faces) > 0

\* a landmarks list is a Python list; None and the empty list are falsy
LandmarkList(points) == [kind |-> "list", items |-> points]

Truthy(v) ==
    CASE v.kind = "None" -> FALSE
      [] v.kind = "list" -> Len(v.items) > 0
      [] OTHER -> TRUE

\* ------------------------------------------------- serialization service
face_to_dict(face) ==
    LET face_dict ==
            [k \in {"bbox", "confidence", "width", "height", "area"} |->
                CASE k = "bbox" ->
                        [x1 |-> face.bbox[1], y1 |-> face.bbox[2],
                         x2 |-> face.bbox[3], y2 |-> face.bbox[4]]
                  [] k = "confidence" -> face.confidence
                  [] k = "width" -> get_width(face)
                  [] k = "height" -> get_height(face)
                  [] k = "area" -> get_area(face)]
        lm == [i \in 1..(IF Truthy(face.landmarks)
                            THEN Len(face.landmarks.items) ELSE 0) |->
                  [x |-> face.landmarks.items[i][1],
                   y |-> face.landmarks.items[i][2]]]
    IN  IF Truthy(face.landmarks)
            THEN [k \in DOMAIN face_dict \cup {"landmarks"} |->
                      IF k = "landmarks" THEN lm ELSE face_dict[k]]
            ELSE face_dict

to_dict(result) ==
    [image_path |-> result.image_path,
     face_count |-> get_face_count(result),
     has_faces |-> has_faces(result),
     processing_time |-> result.processing_time,
     original_image_size |-> [width |-> result.original_image_size[1],
                              height |-> result.original_image_size[2]],
     faces |-> [i \in 1..Len(result.faces) |-> face_to_dict(result.faces[i])]]

\* ------------------------------------------------------ age-range policy
\* the young-adult bracket floored at 25, the floor of the bracket after it
calculate_age_range_floor_of_next(estimated_age) ==
    IF estimated_age < 18 * AgeScale
        THEN <<Max2(0, IntTrunc(estimated_age - 3 * AgeScale)),
               Min2(25, IntTrunc(estimated_age + 3 * AgeScale))>>
    ELSE IF estimated_age < 30 * AgeScale
        THEN <<Max2(25, IntTrunc(estimated_age - 4 * AgeScale)),
               Min2(35, IntTrunc(estimated_age + 4 * AgeScale))>>
    ELSE IF estimated_age < 50 * AgeScale
        THEN <<Max2(25, IntTrunc(estimated_age - 5 * AgeScale)),
               Min2(60, IntTrunc(estimated_age + 5 * AgeScale))>>
    ELSE <<Max2(40, IntTrunc(estimated_age - 8 * AgeScale)),
           Min2(120, IntTrunc(estimated_age + 8 * AgeScale))>>

\* the range of lines 127-130 returned as it is, without the brackets
combined_calculate_age_range_flat(estimated_age) ==
    <<Max2(0, IntTrunc(estimated_age - 6 * AgeScale)),
      Min2(120, IntTrunc(estimated_age + 6 * AgeScale))>>

\* the bucket tests written with <= : an age on a boundary falls one bucket low
calculate_age_range_boundary_low(estimated_age) ==
    IF estimated_age <= 18 * AgeScale
        THEN <<Max2(0, IntTrunc(estimated_age - 3 * AgeScale)),
               Min2(25, IntTrunc(estimated_age + 3 * AgeScale))>>
    ELSE IF estimated_age <= 30 * AgeScale
        THEN <<Max2(18, IntTrunc(estimated_age - 4 * AgeScale)),
               Min2(35, IntTrunc(estimated_age + 4 * AgeScale))>>
    ELSE IF estimated_age <= 50 * AgeScale
        THEN <<Max2(25, IntTrunc(estimated_age - 5 * AgeScale)),
               Min2(60, IntTrunc(estimated_age + 5 * AgeScale))>>
    ELSE <<Max2(40, IntTrunc(estimated_age - 8 * AgeScale)),
           Min2(120, IntTrunc(estimated_age + 8 * AgeScale))>>

\* DeepFaceAgeDetector._calculate_age_range; estimated_age in 1/AgeScale years
calculate_age_range(estimated_age) ==
    IF estimated_age < 18 * AgeScale
        THEN <<Max2(0, IntTrunc(estimated_age - 3 * AgeScale)),
               Min2(25, IntTrunc(estimated_age + 3 * AgeScale))>>
    ELSE IF estimated_age < 30 * AgeScale
        THEN <<Max2(18, IntTrunc(estimated_age - 4 * AgeScale)),
               Min2(35, IntTrunc(estimated_age + 4 * AgeScale))>>
    ELSE IF estimated_age < 50 * AgeScale
        THEN <<Max2(25, IntTrunc(estimated_age - 5 * AgeScale)),
               Min2(60, IntTrunc(estimated_age + 5 * AgeScale))>>
    ELSE <<Max2(40, IntTrunc(estimated_age - 8 * AgeScale)),
           Min2(120, IntTrunc(estimated_age + 8 * AgeScale))>>

\* DeepFaceCombinedDetector._calculate_age_range
combined_calculate_age_range(estimated_age) ==
    IF estimated_age < 18 * AgeScale
        THEN <<Max2(0, IntTrunc(estimated_age - 3 * AgeScale)),
               Min2(25, IntTrunc(estimated_age + 3 * AgeScale))>>
    ELSE IF estimated_age < 30 * AgeScale
        THEN <<Max2(18, IntTrunc(estimated_age - 4 * AgeScale)),
               Min2(35, IntTrunc(estimated_age + 4 * AgeScale))>>
    ELSE IF estimated_age < 50 * AgeScale
        THEN <<Max2(25, IntTrunc(estimated_age - 5 * AgeScale)),
               Min2(60, IntTrunc(estimated_age + 5 * AgeScale))>>
    ELSE <<Max2(40, IntTrunc(estimated_age - 8 * AgeScale)),
           Min2(120, IntTrunc(estimated_age + 8 * AgeScale))>>

\* ------------------------------------------------------ validation service
\* a file name is a sequence of one-character strings
Lower(ch) ==
    CASE ch = "J" -> "j" [] ch = "P" -> "p" [] ch = "G" -> "g"
      [] ch = "E" -> "e" [] ch = "N" -> "n" [] ch = "T" -> "t"
      [] ch = "X" -> "x" [] ch = "A" -> "a" [] ch = "B" -> "b"
      [] ch = "M" -> "m" [] ch = "I" -> "i" [] ch = "F" -> "f"
      [] ch = "W" -> "w" [] OTHER -> ch

\* the name compared as it is written
lower_identity(s) == s

lower(s) == [i \in 1..Len(s) |-> Lower(s[i])]

endswith(s, suffix) ==
    /\ Len(suffix) <= Len(s)
    /\ SubSeq(s, Len(s) - Len(suffix) + 1, Len(s)) = suffix

supported_extensions ==
    { <<".", "j", "p", "g">>, <<".", "j", "p", "e", "g">>,
      <<".", "p", "n", "g">>, <<".", "b", "m", "p">>,
      <<".", "t", "i", "f", "f">>, <<".", "w", "e", "b", "p">> }

validate_image_file(file_path) ==
    \E ext \in supported_extensions : endswith(lower(file_path), ext)

validate_confidence_threshold(threshold) ==
    ThrMin <= threshold /\ threshold <= ThrMax

\* ------------------------------------------------------------- exceptions
Raise(error) == [kind |-> "raise", error |-> error]

IsRaise(v) == v.kind = "raise"

DetectionErrors ==
    {"ModelNotLoadedError", "InvalidImageError", "ProcessingError", "FileError"}

\* ---------------------------------------------------- MTCNN face detector
\* the range test with strict comparisons: the end points are rejected
threshold_in_open_range(threshold) == ThrMin < threshold /\ threshold < ThrMax

\* MTCNNFaceDetector.set_confidence_threshold: the range test of line 113
threshold_in_range(threshold) == ThrMin <= threshold /\ threshold <= ThrMax

\* the setter assigning nothing to the detector
set_confidence_threshold_ignored(stored, threshold) == stored

\* the setter adds the given value to the stored one
set_confidence_threshold_adding(stored, threshold) ==
    IF ~threshold_in_range(threshold) THEN stored ELSE stored + threshold

\* the stored threshold after set_confidence_threshold(threshold)
set_confidence_threshold(stored, threshold) ==
    IF ~threshold_in_range(threshold) THEN stored ELSE threshold

\* MTCNNFaceDetector._convert_detection: [x, y, w, h] to (x1, y1, x2, y2),
\* the five keypoints in the fixed order when the backend gives them
convert_detection(detection) ==
    FaceDetection(
        <<detection.box[1], detection.box[2],
          detection.box[1] + detection.box[3],
          detection.box[2] + detection.box[4]>>,
        detection.confidence,
        IF detection.keypoints.kind # "None"
            THEN LandmarkList(<<detection.keypoints.left_eye,
                                detection.keypoints.right_eye,
                                detection.keypoints.nose,
                                detection.keypoints.mouth_left,
                                detection.keypoints.mouth_right>>)
            ELSE None,
        None, None)

\* the filter dropping a detection whose confidence equals the threshold
keeps_detection_above_only(detection, threshold) ==
    detection.confidence > threshold

\* the detections the filter of lines 59-62 keeps, in the backend's order
keeps_detection(detection, threshold) == detection.confidence >= threshold

RECURSIVE filter_detections(_, _)
filter_detections(detections, threshold) ==
    IF detections = <<>> THEN <<>>
    ELSE LET rest == filter_detections(Tail(detections), threshold)
         IN  IF keeps_detection(Head(detections), threshold)
                 THEN <<convert_detection(Head(detections))>> \o rest
                 ELSE rest

\* ------------------------------------------------------------ image crops
ndarray(h, w) == [kind |-> "ndarray", shape |-> <<h, w, 3>>]

\* the emptiness test reading the channel count only
size_channels_only(image) == image.shape[3]

\* ndarray.size: the number of elements
size(image) == image.shape[1] * image.shape[2] * image.shape[3]

\* length of the Python slice a[lo:hi] of an axis of length n: a negative
\* index counts from the end, indices are clamped to the axis
SliceIndex(i, n) == IF i < 0 THEN Max2(i + n, 0) ELSE Min2(i, n)

SliceLen(lo, hi, n) == Max2(0, SliceIndex(hi, n) - SliceIndex(lo, n))

\* image[y1:y2, x1:x2] with x1, y1, x2, y2 = map(int, face.bbox)
crop(image, bbox) ==
    ndarray(SliceLen(bbox[2], bbox[4], image.shape[1]),
            SliceLen(bbox[1], bbox[3], image.shape[2]))

\* the size test rejecting a crop of exactly the minimum dimension
too_small_inclusive(face_image) ==
    face_image.shape[1] <= MinFaceDim \/ face_image.shape[2] <= MinFaceDim

\* the test of line 90
too_small(face_image) ==
    face_image.shape[1] < MinFaceDim \/ face_image.shape[2] < MinFaceDim

\* ------------------------------------------------------------------ state
VARIABLES
    cfg,                  \* which analyzers the use case was constructed with
    confidence_threshold, \* MTCNNFaceDetector._confidence_threshold
    files,                \* the paths that exist on the file system
    pc,                   \* position of the running detect call
    caller,               \* who called detect: "direct" or "flask"
    args,                 \* the arguments of the running detect call
    image,                \* local: the loaded image
    heap,                 \* the objects the call has allocated, by reference
    result,               \* local: reference of the current DetectionResult
    det_result,           \* reference of the result the face detector returned
    updated_faces,        \* local: references of the faces processed so far
    idx,                  \* local: position of the loop over result.faces
    face_image,           \* local: the crop of the current face
    emotion_result,       \* local
    age_result,           \* local
    calls,                \* the collaborator calls the detect call has made
    outcome,              \* what the detect call returned or raised
    response,             \* the last HTTP response of the Flask handler
    estimated_age,        \* input of the age-range policy
    age_out,              \* the AgeResult DeepFaceAgeDetector builds from it
    combined_age_out,     \* the AgeResult DeepFaceCombinedDetector builds
    ser_result,           \* input of the serializer
    ser_dict,             \* its output
    crop_in,              \* an image and a bounding box
    crop_out,             \* the crop of lines 86-87 and the test of line 90
    val_in,               \* a file name and a threshold
    val_out,              \* what the two validation predicates answer
    idem,                 \* two detect calls in sequence on one image
    analyzer,             \* a DeepFace analyzer call and its temporary file
    threads,              \* detect calls running at once on one detector
    writes,               \* the values written to the detector's threshold
    request,              \* the HTTP request being served
    ann_pc,               \* position in detect_and_annotate
    dirs                  \* the directories that exist

vars == <<cfg, confidence_threshold, files, pc, caller, args, image, heap,
          result, det_result, updated_faces, idx, face_image, emotion_result,
          age_result, calls, outcome, response, estimated_age, age_out,
          combined_age_out, ser_result, ser_dict, crop_in, crop_out, val_in,
          val_out, idem, analyzer, threads, writes, request, ann_pc,
          dirs>>

detect_vars == <<pc, caller, args, image, heap, result, det_result,
                 updated_faces, idx, face_image, emotion_result, age_result,
                 calls, outcome>>

fn_vars == <<crop_in, crop_out, val_in, val_out, idem, analyzer>>

race_vars == <<threads, writes>>

api_vars == <<request, ann_pc, dirs>>

\* what a detect call never touches
pure_vars == <<estimated_age, age_out, combined_age_out, ser_result, ser_dict,
               fn_vars, race_vars, api_vars>>

\* ------------------------------------------------------------- input sets
Path(dir, name) == [dir |-> dir, name |-> name]

ExistingPath == Path("images", <<"a", ".", "j", "p", "g">>)

MissingPath == Path("images", <<"m", ".", "j", "p", "g">>)

Float(v) == [kind |-> "float", v |-> v]

ThresholdValues == {ThrMin - 1, ThrMin, DefaultThreshold, ThrMax, ThrMax + 1}

ThresholdArgs == {None} \cup {Float(t) : t \in ThresholdValues}

TestImage == ndarray(80, 100)

EmptyImage == ndarray(0, 0)

LoadOutcomes ==
    {TestImage, EmptyImage, None, Raise("InvalidImageError"), Raise("FileError")}

Keypoints(x, y) ==
    [kind |-> "dict", left_eye |-> <<x + 3, y + 3>>,
     right_eye |-> <<x + 7, y + 3>>, nose |-> <<x + 5, y + 5>>,
     mouth_left |-> <<x + 3, y + 7>>, mouth_right |-> <<x + 7, y + 7>>]

\* what the MTCNN backend can emit for one face: a face of exactly the
\* minimum dimension (10 x 10) with keypoints and a narrow one (5 px wide)
\* without
BackendDetections ==
    { [box |-> <<10, 10, 10, 10>>, confidence |-> ThrMax,
       keypoints |-> Keypoints(10, 10)],
      [box |-> <<60, 20, 5, 30>>, confidence |-> DefaultThreshold,
       keypoints |-> None] }

BackendOutputs ==
    UNION { [1..n -> BackendDetections] : n \in 0..MaxFaces }

ProcessingTimes == {1, 2}

CombinedEmotion == EmotionResult("happy", 9)

CombinedAge == AgeResult(25 * AgeScale, combined_calculate_age_range(25 * AgeScale))

CombinedOutcomes ==
    {Raise("ProcessingError")} \cup
    { [kind |-> "pair", emotion |-> e, age |-> a] :
        e \in {None, CombinedEmotion}, a \in {None, CombinedAge} }

EmotionOutcomes == {Raise("ProcessingError"), EmotionResult("sad", 7)}

AgeOutcomes ==
    {Raise("ProcessingError"),
     AgeResult(40 * AgeScale, calculate_age_range(40 * AgeScale))}

Call(op, face, out) == [op |-> op, face |-> face, out |-> out]

Ok(ref) == [kind |-> "ok", ref |-> ref]

\* the log entry of a face-detector run that returned: the result, and what
\* the MTCNN backend had emitted (mtcnn_detector.py line 55)
Detected(ref, detections) == [kind |-> "ok", ref |-> ref, emitted |-> detections]

\* -------------------------------------------- orchestrator: pure decisions
\* the except clause letting every domain error kind through
wrap_error_any_domain_error(error) ==
    IF error \in DetectionErrors THEN error ELSE "InvalidImageError"

\* the try/except of lines 68-71: what reaches the caller of detect
wrap_error(error) ==
    IF error \in {"InvalidImageError", "FileError"} THEN error
    ELSE "InvalidImageError"

\* MTCNNFaceDetector.detect_faces applied to an image: the new face objects
\* and the new DetectionResult are appended to the heap
detect_faces(h, img, detections, threshold, ptime) ==
    LET fv == filter_detections(detections, threshold)
    IN  h \o fv \o
        << DetectionResult("numpy_array",
                           [i \in 1..Len(fv) |-> Len(h) + i],
                           ptime,
                           <<img.shape[2], img.shape[1]>>) >>

\* the existence test left out
path_not_checked(fs, image_path) == TRUE

\* line 47: os.path.exists
path_exists(fs, image_path) == image_path \in fs

\* the test of the flags left out of line 63
wants_analysis_any_face(detect_emotions, detect_age, faces) == Len(faces) > 0

\* line 63
wants_analysis(detect_emotions, detect_age, faces) ==
    (detect_emotions \/ detect_age) /\ Len(faces) > 0

\* the combined analyzer used whenever it is configured
use_combined_whenever_configured(c, detect_emotions, detect_age) == c.combined

\* line 98
use_combined(c, detect_emotions, detect_age) ==
    c.combined /\ detect_emotions /\ detect_age

\* line 106
use_emotion(c, detect_emotions, emotion) ==
    detect_emotions /\ IsNone(emotion) /\ c.emotion

\* the flag left out of line 112: the age analyzer runs whenever configured
use_age_unrequested(c, detect_age, age) == IsNone(age) /\ c.age

\* the "no result yet" test left out of line 112
use_age_again(c, detect_age, age) == detect_age /\ c.age

\* line 112
use_age(c, detect_age, age) ==
    detect_age /\ IsNone(age) /\ c.age

\* lines 99-102: the pair assigned from the combined call, nothing on failure
after_combined(out) ==
    IF IsRaise(out) THEN <<None, None>> ELSE <<out.emotion, out.age>>

\* lines 107-110 and 113-116
after_individual(out) == IF IsRaise(out) THEN None ELSE out

\* lines 90-92: the original face entry is kept
keep_face(h, uf, fid) == [heap |-> h, faces |-> Append(uf, fid)]

\* the enrichment written into the detector's face object
build_face_in_place(h, uf, fid, emotion, age) ==
    [heap |-> [h EXCEPT ![fid].emotion = emotion, ![fid].age = age],
     faces |-> Append(uf, fid)]

\* a face that got no enrichment is left out of the updated list
build_face_drop_unenriched(h, uf, fid, emotion, age) ==
    IF IsNone(emotion) /\ IsNone(age)
        THEN [heap |-> h, faces |-> uf]
        ELSE [heap |-> Append(h, FaceDetection(h[fid].bbox, h[fid].confidence,
                                               h[fid].landmarks, emotion, age)),
              faces |-> Append(uf, Len(h) + 1)]

\* lines 119-126: a new FaceDetection with the original geometry
build_face(h, uf, fid, emotion, age) ==
    [heap |-> Append(h, FaceDetection(h[fid].bbox, h[fid].confidence,
                                       h[fid].landmarks, emotion, age)),
     faces |-> Append(uf, Len(h) + 1)]

\* lines 134-139: a new DetectionResult around the updated faces
build_result(h, rid, uf) ==
    Append(h, DetectionResult(h[rid].image_path, uf, h[rid].processing_time,
                              h[rid].original_image_size))

\* a DetectionResult as its reader sees it: the faces by value
Deref(h, rid) ==
    [h[rid] EXCEPT !.faces = [i \in 1..Len(h[rid].faces) |-> h[h[rid].faces[i]]]]

\* ------------------------------------------------------------------- Init
Configs == [combined : BOOLEAN, emotion : BOOLEAN, age : BOOLEAN]

NoArgs ==
    [image_path |-> ExistingPath, confidence_threshold |-> None,
     detect_emotions |-> FALSE, detect_age |-> FALSE]

IdleLocals ==
    /\ pc = "idle"
    /\ caller = "none"
    /\ args = NoArgs
    /\ image = None
    /\ heap = <<>>
    /\ result = 0
    /\ det_result = 0
    /\ updated_faces = <<>>
    /\ idx = 0
    /\ face_image = None
    /\ emotion_result = None
    /\ age_result = None
    /\ calls = <<>>
    /\ outcome = None
    /\ response = None

FnIdle ==
    /\ crop_in = None
    /\ crop_out = None
    /\ val_in = None
    /\ val_out = None
    /\ idem = None
    /\ analyzer = None

RaceIdle == threads = <<>> /\ writes = <<>>

ApiIdle == request = None /\ ann_pc = "none" /\ dirs = {}

PureIdle ==
    /\ FnIdle
    /\ RaceIdle
    /\ ApiIdle
    /\ estimated_age = 0
    /\ age_out = None
    /\ combined_age_out = None
    /\ ser_result = DetectionResult("numpy_array", <<>>, 1, <<100, 80>>)
    /\ ser_dict = None

Init ==
    /\ cfg \in Configs
    /\ confidence_threshold = DefaultThreshold
    /\ files = {ExistingPath}
    /\ IdleLocals
    /\ PureIdle

\* ------------------------------------------------- detect_faces_in_image
\* entry and line 47-48
Enter(who, fs, image_path, threshold, detect_emotions, detect_age) ==
    /\ caller' = who
    /\ args' = [image_path |-> image_path, confidence_threshold |-> threshold,
                detect_emotions |-> detect_emotions, detect_age |-> detect_age]
    /\ image' = None
    /\ heap' = <<>>
    /\ result' = 0
    /\ det_result' = 0
    /\ updated_faces' = <<>>
    /\ idx' = 0
    /\ face_image' = None
    /\ emotion_result' = None
    /\ age_result' = None
    /\ calls' = <<>>
    /\ IF ~path_exists(fs, image_path)
          THEN outcome' = Raise("FileError") /\ pc' = "done"
          ELSE outcome' = None /\ pc' = "set_threshold"

DirectCall ==
    /\ pc = "idle"
    /\ \E p \in {ExistingPath, MissingPath}, t \in ThresholdArgs,
          e \in BOOLEAN, a \in BOOLEAN :
          Enter("direct", files, p, t, e, a)
    /\ response' = None
    /\ UNCHANGED <<cfg, confidence_threshold, files, pure_vars>>

\* lines 50-51 and MTCNNFaceDetector.set_confidence_threshold
SetThreshold ==
    /\ pc = "set_threshold"
    /\ IF IsNone(args.confidence_threshold)
          THEN /\ pc' = "load"
               /\ UNCHANGED <<confidence_threshold, calls, outcome>>
          ELSE /\ calls' = Append(calls,
                      Call("set_confidence_threshold", 0, args.confidence_threshold))
               /\ confidence_threshold' =
                      set_confidence_threshold(confidence_threshold,
                                               args.confidence_threshold.v)
               /\ IF threshold_in_range(args.confidence_threshold.v)
                     THEN pc' = "load" /\ UNCHANGED outcome
                     ELSE pc' = "done" /\ outcome' = Raise("ValueError")
    /\ UNCHANGED <<cfg, files, caller, args, image, heap, result, det_result,
                   updated_faces, idx, face_image, emotion_result, age_result,
                   response, pure_vars>>

\* lines 55-57
LoadImage ==
    /\ pc = "load"
    /\ \E out \in LoadOutcomes :
          /\ calls' = Append(calls, Call("load_image", 0, out))
          /\ IF IsRaise(out)
                THEN /\ outcome' = Raise(wrap_error(out.error))
                     /\ pc' = "done"
                     /\ UNCHANGED image
                ELSE /\ image' = out
                     /\ IF IsNone(out) \/ size(out) = 0
                           THEN /\ outcome' = Raise(wrap_error("InvalidImageError"))
                                /\ pc' = "done"
                           ELSE /\ pc' = "detect"
                                /\ UNCHANGED outcome
    /\ UNCHANGED <<cfg, confidence_threshold, files, caller, args, heap, result,
                   det_result, updated_faces, idx, face_image, emotion_result,
                   age_result, response, pure_vars>>

\* MTCNNFaceDetector.detect_faces, lines 73-76: what a backend failure becomes
detector_error(error) ==
    IF error \in {"ModelNotLoadedError", "InvalidImageError"} THEN error
    ELSE "ProcessingError"

\* what can go wrong in a detector run: the backend raises, or the model is
\* not loaded (line 32)
DetectorFailures == {"RuntimeError", "ModelNotLoadedError"}

\* a failed detector run answered with an empty result
RunDetector_failure_as_empty_result ==
    /\ pc = "detect"
    /\ LET h == detect_faces(heap, image, <<>>, confidence_threshold, 1)
       IN  /\ heap' = h
           /\ result' = Len(h)
           /\ det_result' = Len(h)
           /\ calls' = Append(calls, Call("detect_faces", 0,
                                           Raise("ProcessingError")))
           /\ pc' = "return"
           /\ UNCHANGED <<outcome, idx>>
    /\ UNCHANGED <<cfg, confidence_threshold, files, caller, args, image,
                   updated_faces, face_image, emotion_result, age_result,
                   response, pure_vars>>

\* lines 60-64: the face detector runs, then the branch on the flags
RunDetector ==
    /\ pc = "detect"
    /\ \/ \E error \in DetectorFailures :
             /\ calls' = Append(calls, Call("detect_faces", 0,
                                             Raise(detector_error(error))))
             /\ outcome' = Raise(wrap_error(detector_error(error)))
             /\ pc' = "done"
             /\ UNCHANGED <<heap, result, det_result, idx>>
       \/ \E detections \in BackendOutputs, ptime \in ProcessingTimes :
             LET h == detect_faces(heap, image, detections,
                                   confidence_threshold, ptime)
             IN  /\ heap' = h
                 /\ result' = Len(h)
                 /\ det_result' = Len(h)
                 /\ calls' = Append(calls, Call("detect_faces", 0,
                                                 Detected(Len(h), detections)))
                 /\ UNCHANGED outcome
                 /\ IF wants_analysis(args.detect_emotions, args.detect_age,
                                      h[Len(h)].faces)
                       THEN pc' = "crop" /\ idx' = 1
                       ELSE pc' = "return" /\ UNCHANGED idx
    /\ UNCHANGED <<cfg, confidence_threshold, files, caller, args, image,
                   updated_faces, face_image, emotion_result, age_result,
                   response, pure_vars>>

\* ---------------------------------------------------- _add_facial_analysis
CurrentFace == heap[result].faces[idx]

\* the loop of line 83 moves on, or ends
NextFace ==
    IF idx < Len(heap[result].faces)
        THEN pc' = "crop" /\ idx' = idx + 1
        ELSE pc' = "finish" /\ UNCHANGED idx

\* lines 86-95
CropFace ==
    /\ pc = "crop"
    /\ LET fi == crop(image, heap[CurrentFace].bbox)
       IN  /\ face_image' = fi
           /\ IF too_small(fi)
                 THEN LET k == keep_face(heap, updated_faces, CurrentFace)
                      IN  /\ heap' = k.heap
                          /\ updated_faces' = k.faces
                          /\ NextFace
                          /\ UNCHANGED <<emotion_result, age_result>>
                 ELSE /\ emotion_result' = None
                      /\ age_result' = None
                      /\ pc' = "combined"
                      /\ UNCHANGED <<heap, updated_faces, idx>>
    /\ UNCHANGED <<cfg, confidence_threshold, files, caller, args, image,
                   result, det_result, calls, outcome, response, pure_vars>>

\* lines 98-103
CombinedCall ==
    /\ pc = "combined"
    /\ IF use_combined(cfg, args.detect_emotions, args.detect_age)
          THEN \E out \in CombinedOutcomes :
                  /\ calls' = Append(calls, Call("detect_emotion_and_age", idx, out))
                  /\ emotion_result' = after_combined(out)[1]
                  /\ age_result' = after_combined(out)[2]
          ELSE UNCHANGED <<calls, emotion_result, age_result>>
    /\ pc' = "emotion"
    /\ UNCHANGED <<cfg, confidence_threshold, files, caller, args, image, heap,
                   result, det_result, updated_faces, idx, face_image, outcome,
                   response, pure_vars>>

\* lines 106-110
EmotionCall ==
    /\ pc = "emotion"
    /\ IF use_emotion(cfg, args.detect_emotions, emotion_result)
          THEN \E out \in EmotionOutcomes :
                  /\ calls' = Append(calls, Call("detect_emotion", idx, out))
                  /\ emotion_result' = after_individual(out)
          ELSE UNCHANGED <<calls, emotion_result>>
    /\ pc' = "age"
    /\ UNCHANGED <<cfg, confidence_threshold, files, caller, args, image, heap,
                   result, det_result, updated_faces, idx, face_image,
                   age_result, outcome, response, pure_vars>>

\* lines 112-116
AgeCall ==
    /\ pc = "age"
    /\ IF use_age(cfg, args.detect_age, age_result)
          THEN \E out \in AgeOutcomes :
                  /\ calls' = Append(calls, Call("detect_age", idx, out))
                  /\ age_result' = after_individual(out)
          ELSE UNCHANGED <<calls, age_result>>
    /\ pc' = "build"
    /\ UNCHANGED <<cfg, confidence_threshold, files, caller, args, image, heap,
                   result, det_result, updated_faces, idx, face_image,
                   emotion_result, outcome, response, pure_vars>>

\* lines 119-126
BuildFace ==
    /\ pc = "build"
    /\ LET b == build_face(heap, updated_faces, CurrentFace,
                           emotion_result, age_result)
       IN  /\ heap' = b.heap
           /\ updated_faces' = b.faces
    /\ NextFace
    /\ UNCHANGED <<cfg, confidence_threshold, files, caller, args, image,
                   result, det_result, face_image, emotion_result, age_result,
                   calls, outcome, response, pure_vars>>

\* lines 134-139 and the assignment of line 64
FinishAnalysis ==
    /\ pc = "finish"
    /\ heap' = build_result(heap, result, updated_faces)
    /\ result' = Len(heap) + 1
    /\ pc' = "return"
    /\ UNCHANGED <<cfg, confidence_threshold, files, caller, args, image,
                   det_result, updated_faces, idx, face_image, emotion_result,
                   age_result, calls, outcome, response, pure_vars>>

\* line 66
Return ==
    /\ pc = "return"
    /\ outcome' = Ok(result)
    /\ pc' = "done"
    /\ UNCHANGED <<cfg, confidence_threshold, files, caller, args, image, heap,
                   result, det_result, updated_faces, idx, face_image,
                   emotion_result, age_result, calls, response, pure_vars>>

\* the frame of the finished call is dropped
DropFrame ==
    /\ pc' = "idle"
    /\ caller' = "none"
    /\ args' = NoArgs
    /\ image' = None
    /\ heap' = <<>>
    /\ result' = 0
    /\ det_result' = 0
    /\ updated_faces' = <<>>
    /\ idx' = 0
    /\ face_image' = None
    /\ emotion_result' = None
    /\ age_result' = None
    /\ calls' = <<>>
    /\ outcome' = None

\* the direct caller has its answer; the next call may start
DirectDone ==
    /\ pc = "done"
    /\ caller = "direct"
    /\ DropFrame
    /\ UNCHANGED <<cfg, confidence_threshold, files, response, pure_vars>>

\* ------------------------------------------------- Flask handler /detect
Response(status, body) == [kind |-> "response", status |-> status, body |-> body]

\* werkzeug's secure_filename on the characters the model uses: separators
\* and blanks become "_", then leading and trailing "." and "_" are stripped
SafeChar(ch) == IF ch \in {"/", " "} THEN "_" ELSE ch

RECURSIVE lstrip(_)
lstrip(name) ==
    IF name # <<>> /\ Head(name) \in {".", "_"} THEN lstrip(Tail(name)) ELSE name

RECURSIVE rstrip(_)
rstrip(name) ==
    IF name # <<>> /\ name[Len(name)] \in {".", "_"}
        THEN rstrip(SubSeq(name, 1, Len(name) - 1)) ELSE name

secure_filename(name) == rstrip(lstrip([i \in 1..Len(name) |-> SafeChar(name[i])]))

UploadNames ==
    { <<>>, <<"p", ".", "J", "P", "G">>, <<"d", ".", "t", "x", "t">>,
      <<".", "j", "p", "g">> }

Requests ==
    [has_image : BOOLEAN, filename : UploadNames, confidence : ThresholdArgs,
     emotions : BOOLEAN, age : BOOLEAN]

\* lines 101-102: the upload's path; requests are served one at a time, so
\* one file_id stands for the fresh uuid
upload_path(filename) == Path("uploads", filename)

\* lines 80-99: the response that rejects the request, or None
flask_reject(r) ==
    IF ~r.has_image
        THEN Response(400, [error |-> "No image file provided"])
    ELSE IF r.filename = <<>>
        THEN Response(400, [error |-> "No file selected"])
    ELSE IF ~IsNone(r.confidence)
              /\ ~validate_confidence_threshold(r.confidence.v)
        THEN Response(400, [error |-> "Confidence threshold must be between 0.0 and 1.0"])
    ELSE IF ~validate_image_file(secure_filename(r.filename))
        THEN Response(400, [error |-> "Unsupported image format"])
    ELSE None

\* both error clauses of a Flask handler answer 500
flask_response_all_500(h, out) ==
    IF out.kind = "ok"
        THEN Response(200, [data |-> to_dict(Deref(h, out.ref)), file_id |-> 1])
        ELSE Response(500, [error |-> out.error])

\* lines 110-119: the response for what detect returned or raised
flask_response(h, out) ==
    IF out.kind = "ok"
        THEN Response(200, [data |-> to_dict(Deref(h, out.ref)), file_id |-> 1])
    ELSE IF out.error \in DetectionErrors
        THEN Response(400, [error |-> out.error])
    ELSE Response(500, [error |-> out.error])

\* lines 78-108: validation, the upload is stored, detect is entered
FlaskDetect ==
    /\ pc = "idle"
    /\ \E r \in Requests :
          IF ~IsNone(flask_reject(r))
              THEN /\ response' = flask_reject(r)
                   /\ UNCHANGED <<files, detect_vars>>
              ELSE LET file_path == upload_path(secure_filename(r.filename))
                   IN  /\ files' = files \cup {file_path}
                       /\ Enter("flask", files \cup {file_path}, file_path,
                                r.confidence, r.emotions, r.age)
                       /\ response' = None
    /\ UNCHANGED <<cfg, confidence_threshold, pure_vars>>

\* lines 110-126: the response, and the upload is removed
FlaskRespond ==
    /\ pc = "done"
    /\ caller = "flask"
    /\ response' = flask_response(heap, outcome)
    /\ files' = files \ {args.image_path}
    /\ DropFrame
    /\ UNCHANGED <<cfg, confidence_threshold, pure_vars>>

\* ------------------------------------------- pure functions, on their own
\* DeepFaceAgeDetector.detect_age, lines 104-110
AgeInit ==
    /\ cfg = [combined |-> TRUE, emotion |-> TRUE, age |-> TRUE]
    /\ confidence_threshold = DefaultThreshold
    /\ files = {ExistingPath}
    /\ IdleLocals
    /\ estimated_age \in 0..(MaxAge * AgeScale)
    /\ age_out = None
    /\ combined_age_out = None
    /\ ser_result = DetectionResult("numpy_array", <<>>, 1, <<100, 80>>)
    /\ ser_dict = None
    /\ FnIdle
    /\ RaceIdle
    /\ ApiIdle

DetectAge ==
    /\ age_out = None
    /\ age_out' = AgeResult(estimated_age, calculate_age_range(estimated_age))
    /\ UNCHANGED <<cfg, confidence_threshold, files, detect_vars, response,
                   estimated_age, combined_age_out, ser_result, ser_dict,
                   fn_vars, race_vars, api_vars>>

\* DeepFaceCombinedDetector.detect_emotion_and_age, lines 134-140
CombinedDetectAge ==
    /\ combined_age_out = None
    /\ combined_age_out' =
           AgeResult(estimated_age, combined_calculate_age_range(estimated_age))
    /\ UNCHANGED <<cfg, confidence_threshold, files, detect_vars, response,
                   estimated_age, age_out, ser_result, ser_dict,
                   fn_vars, race_vars, api_vars>>

AgeNext == DetectAge \/ CombinedDetectAge

AgeSpec == AgeInit /\ [][AgeNext]_vars

\* DetectionResultSerializer.to_dict on any result of the object model
SerLandmarks ==
    {None, LandmarkList(<<>>),
     LandmarkList(<< <<20, 20>>, <<40, 20>>, <<30, 30>>, <<20, 40>>, <<40, 40>> >>)}

SerFaces ==
    { FaceDetection(b, b[1], l, e, a) :
        b \in { <<10, 10, 50, 40>>, <<6, 20, 11, 50>> },
        l \in SerLandmarks,
        e \in {None, EmotionResult("happy", 9)},
        a \in {None, AgeResult(25 * AgeScale, calculate_age_range(25 * AgeScale))} }

SerResults ==
    { DetectionResult("numpy_array", f, 1, <<100, 80>>) :
        f \in UNION { [1..n -> SerFaces] : n \in 0..MaxSerFaces } }

SerInit ==
    /\ cfg = [combined |-> TRUE, emotion |-> TRUE, age |-> TRUE]
    /\ confidence_threshold = DefaultThreshold
    /\ files = {ExistingPath}
    /\ IdleLocals
    /\ estimated_age = 0
    /\ age_out = None
    /\ combined_age_out = None
    /\ ser_result \in SerResults
    /\ ser_dict = None
    /\ FnIdle
    /\ RaceIdle
    /\ ApiIdle

Serialize ==
    /\ ser_dict = None
    /\ ser_dict' = to_dict(ser_result)
    /\ UNCHANGED <<cfg, confidence_threshold, files, detect_vars, response,
                   estimated_age, age_out, combined_age_out, ser_result,
                   fn_vars, race_vars, api_vars>>

SerNext == Serialize

SerSpec == SerInit /\ [][SerNext]_vars

\* the crop of one face of _add_facial_analysis, lines 85-92, on any box the
\* detector backend can emit for the image, boxes over the edges included
CropBoxes ==
    { <<x, y, w, h>> : x \in {-15, -5, 0, 50, 95}, y \in {-5, 0, 40, 75},
                       w \in {5, 20, 60}, h \in {5, 20, 60} }

CropInputs ==
    { [image |-> TestImage,
       face |-> convert_detection([box |-> b, confidence |-> ThrMax,
                                   keypoints |-> None])] : b \in CropBoxes }

PureInit ==
    /\ cfg = [combined |-> TRUE, emotion |-> TRUE, age |-> TRUE]
    /\ confidence_threshold = DefaultThreshold
    /\ files = {ExistingPath}
    /\ IdleLocals
    /\ estimated_age = 0
    /\ age_out = None
    /\ combined_age_out = None
    /\ ser_result = DetectionResult("numpy_array", <<>>, 1, <<100, 80>>)
    /\ ser_dict = None
    /\ ApiIdle

CropInit ==
    /\ PureInit
    /\ RaceIdle
    /\ crop_in \in CropInputs
    /\ crop_out = None
    /\ val_in = None
    /\ val_out = None
    /\ idem = None
    /\ analyzer = None

\* lines 86-92: the crop, and whether the face goes on to the analyzers
CropRegion ==
    /\ crop_out = None
    /\ LET fi == crop(crop_in.image, crop_in.face.bbox)
       IN  crop_out' = [face_image |-> fi, analysed |-> ~too_small(fi)]
    /\ UNCHANGED <<cfg, confidence_threshold, files, detect_vars, response,
                   estimated_age, age_out, combined_age_out, ser_result,
                   ser_dict, crop_in, val_in, val_out, idem, analyzer,
                   race_vars, api_vars>>

CropNext == CropRegion

\* ValidationService on any file name and threshold
UpperOf(ch) ==
    CASE ch = "j" -> "J" [] ch = "p" -> "P" [] ch = "g" -> "G"
      [] ch = "e" -> "E" [] ch = "n" -> "N" [] ch = "t" -> "T"
      [] ch = "b" -> "B" [] ch = "m" -> "M" [] ch = "i" -> "I"
      [] ch = "f" -> "F" [] ch = "w" -> "W" [] OTHER -> ch

\* an extension as written by the uploader: lower case, upper case, capitalised
Spellings(ext) ==
    { ext,
      [i \in 1..Len(ext) |-> UpperOf(ext[i])],
      [i \in 1..Len(ext) |-> IF i = 2 THEN UpperOf(ext[i]) ELSE ext[i]] }

NameEndings ==
    UNION { Spellings(ext) : ext \in supported_extensions } \cup
    { <<>>, <<".", "t", "x", "t">>, <<".", "g", "i", "f">>, <<".", "j", "p">>,
      <<"j", "p", "g">>, <<".", "p", "n", "g", ".">>, <<".", "J", "P", "G", "x">> }

NameStems == { <<>>, <<"a">>, <<"A", ".", "p", "n", "g">> }

FileNames == { stem \o ending : stem \in NameStems, ending \in NameEndings }

ThresholdGrid == (ThrMin - 1)..(ThrMax + 1)

ValInit ==
    /\ PureInit
    /\ RaceIdle
    /\ crop_in = None
    /\ crop_out = None
    /\ val_in \in [name : FileNames, threshold : ThresholdGrid]
    /\ val_out = None
    /\ idem = None
    /\ analyzer = None

\* both predicates applied; they read their argument and nothing else
Validate ==
    /\ val_out' = [image_file |-> validate_image_file(val_in.name),
                   threshold |-> validate_confidence_threshold(val_in.threshold)]
    /\ UNCHANGED <<cfg, confidence_threshold, files, detect_vars, response,
                   estimated_age, age_out, combined_age_out, ser_result,
                   ser_dict, crop_in, crop_out, val_in, idem, analyzer,
                   race_vars, api_vars>>

ValNext == Validate

ValSpec == ValInit /\ [][ValNext]_vars

\* detect_faces_in_image without enrichment, lines 47-71, as one function of
\* the stored threshold, the file system, the arguments and what the loader
\* and the detector backend answer: the outcome and the threshold it leaves
Returned(value) == [kind |-> "result", value |-> value]

detect_plain(stored, fs, image_path, threshold, load_out, backend_out, ptime) ==
    IF ~path_exists(fs, image_path)
        THEN [outcome |-> Raise("FileError"), threshold |-> stored]
    ELSE IF ~IsNone(threshold) /\ ~threshold_in_range(threshold.v)
        THEN [outcome |-> Raise("ValueError"), threshold |-> stored]
    ELSE LET thr == IF IsNone(threshold) THEN stored
                    ELSE set_confidence_threshold(stored, threshold.v)
         IN  IF IsRaise(load_out)
                 THEN [outcome |-> Raise(wrap_error(load_out.error)),
                       threshold |-> thr]
             ELSE IF IsNone(load_out) \/ size(load_out) = 0
                 THEN [outcome |-> Raise(wrap_error("InvalidImageError")),
                       threshold |-> thr]
             ELSE IF IsRaise(backend_out)
                 THEN [outcome |->
                          Raise(wrap_error(detector_error(backend_out.error))),
                       threshold |-> thr]
             ELSE LET h == detect_faces(<<>>, load_out, backend_out.items,
                                        thr, ptime)
                  IN  [outcome |-> Returned(Deref(h, Len(h))),
                       threshold |-> thr]

\* a deterministic backend: what it answers is fixed by the image
BackendAnswers ==
    {Raise("RuntimeError")} \cup
    { [kind |-> "list", items |-> d] : d \in BackendOutputs }

StoredThresholds == {ThrMin, DefaultThreshold, ThrMax}

IdemInit ==
    /\ cfg = [combined |-> TRUE, emotion |-> TRUE, age |-> TRUE]
    /\ confidence_threshold \in StoredThresholds
    /\ files = {ExistingPath}
    /\ IdleLocals
    /\ estimated_age = 0
    /\ age_out = None
    /\ combined_age_out = None
    /\ ser_result = DetectionResult("numpy_array", <<>>, 1, <<100, 80>>)
    /\ ser_dict = None
    /\ RaceIdle
    /\ ApiIdle
    /\ crop_in = None
    /\ crop_out = None
    /\ val_in = None
    /\ val_out = None
    /\ analyzer = None
    /\ idem \in [image_path : {ExistingPath, MissingPath},
                  threshold : ThresholdArgs,
                  load : LoadOutcomes,
                  backend : BackendAnswers,
                  first : {None}, second : {None}]

IdemCall(ptime) ==
    detect_plain(confidence_threshold, files, idem.image_path, idem.threshold,
                 idem.load, idem.backend, ptime)

IdemFrame ==
    UNCHANGED <<cfg, files, detect_vars, response, estimated_age, age_out,
                combined_age_out, ser_result, ser_dict, crop_in, crop_out,
                val_in, val_out, analyzer, race_vars, api_vars>>

FirstDetect ==
    /\ idem.first = None
    /\ \E ptime \in ProcessingTimes :
          /\ idem' = [idem EXCEPT !.first = IdemCall(ptime).outcome]
          /\ confidence_threshold' = IdemCall(ptime).threshold
    /\ IdemFrame

SecondDetect ==
    /\ idem.first # None
    /\ idem.second = None
    /\ \E ptime \in ProcessingTimes :
          /\ idem' = [idem EXCEPT !.second = IdemCall(ptime).outcome]
          /\ confidence_threshold' = IdemCall(ptime).threshold
    /\ IdemFrame

IdemNext == FirstDetect \/ SecondDetect

IdemSpec == IdemInit /\ [][IdemNext]_vars

\* -------------------------- detect calls running at once on one detector
\* the Flask application serves its requests from several threads, all of
\* which call the one use case and the one MTCNNFaceDetector of
\* _setup_dependencies
Threads == {1, 2}

ThreadThresholds == {ThrMin, DefaultThreshold, ThrMax}

Thread(threshold) ==
    [pc |-> "set_threshold", threshold |-> threshold, detections |-> <<>>,
     k |-> 0, reads |-> <<>>, faces |-> <<>>]

RaceInit ==
    /\ PureInit
    /\ FnIdle
    /\ threads \in [Threads -> {Thread(t) : t \in ThreadThresholds}]
    /\ writes = <<>>

RaceFrame ==
    UNCHANGED <<cfg, files, detect_vars, response, estimated_age, age_out,
                combined_age_out, ser_result, ser_dict, fn_vars, api_vars>>

\* the threshold of each call's own argument used by the filter
filter_threshold_of_call(stored, own) == own

\* mtcnn_detector.py line 60: the filter reads the detector's field
filter_threshold(stored, own) == stored

\* use_cases.py lines 50-51
ThreadSetThreshold(i) ==
    /\ threads[i].pc = "set_threshold"
    /\ confidence_threshold' =
           set_confidence_threshold(confidence_threshold, threads[i].threshold)
    /\ writes' = Append(writes, [by |-> i, value |-> threads[i].threshold])
    /\ threads' = [threads EXCEPT ![i].pc = "detect"]
    /\ RaceFrame

\* use_cases.py lines 55-60 and mtcnn_detector.py lines 37-58: the image is
\* loaded and the backend has answered
ThreadRunBackend(i) ==
    /\ threads[i].pc = "detect"
    /\ \E detections \in BackendOutputs :
          threads' = [threads EXCEPT ![i].pc = "filter",
                                     ![i].detections = detections,
                                     ![i].k = 1]
    /\ UNCHANGED <<confidence_threshold, writes>>
    /\ RaceFrame

\* mtcnn_detector.py lines 59-62: one turn of the filter loop
ThreadFilter(i) ==
    /\ threads[i].pc = "filter"
    /\ LET t == threads[i]
           thr == filter_threshold(confidence_threshold, t.threshold)
       IN  IF t.k > Len(t.detections)
               THEN threads' = [threads EXCEPT ![i].pc = "done"]
               ELSE threads' =
                      [threads EXCEPT
                         ![i].k = t.k + 1,
                         ![i].reads = Append(t.reads,
                                             [at |-> Len(writes), value |-> thr]),
                         ![i].faces =
                             IF keeps_detection(t.detections[t.k], thr)
                                 THEN Append(t.faces,
                                             convert_detection(t.detections[t.k]))
                                 ELSE t.faces]
    /\ UNCHANGED <<confidence_threshold, writes>>
    /\ RaceFrame

RaceNext ==
    \E i \in Threads :
        \/ ThreadSetThreshold(i)
        \/ ThreadRunBackend(i)
        \/ ThreadFilter(i)

RaceSpec == RaceInit /\ [][RaceNext]_vars

CropSpec == CropInit /\ [][CropNext]_vars

\* ------------------------------------------------------ detect_and_annotate
\* os.path.dirname
dirname(path) == path.dir

\* the detection of line 165 raised: nothing after it runs
annotate_after_always(out) == "load"

\* line 165: an exception of detect_faces_in_image leaves detect_and_annotate
annotate_after(out) == IF IsRaise(out) THEN "raised" ELSE "load"

\* the calls detect_and_annotate makes itself are logged with face -1
AnnotateCall(op, out) == Call(op, -1, out)

AnnotateFrame ==
    UNCHANGED <<cfg, confidence_threshold, caller, args, image, heap, result,
                det_result, updated_faces, idx, face_image, emotion_result,
                age_result, response, request, pc, estimated_age, age_out,
                combined_age_out, ser_result, ser_dict, fn_vars, race_vars>>

\* line 165 has returned or raised
AnnotateDetected ==
    /\ pc = "done"
    /\ ann_pc = "detect"
    /\ ann_pc' = annotate_after(outcome)
    /\ UNCHANGED <<calls, outcome, files, dirs>>
    /\ AnnotateFrame

\* a step of lines 168-175 that raised ends the call with that error
AnnotateStep(op, out, next) ==
    /\ calls' = Append(calls, AnnotateCall(op, out))
    /\ IF IsRaise(out)
          THEN outcome' = out /\ ann_pc' = "raised"
          ELSE UNCHANGED outcome /\ ann_pc' = next

\* line 168
AnnotateLoad ==
    /\ pc = "done"
    /\ ann_pc = "load"
    /\ \E out \in {TestImage, Raise("InvalidImageError"), Raise("FileError")} :
          AnnotateStep("load_image", out, "draw")
    /\ UNCHANGED <<files, dirs>>
    /\ AnnotateFrame

\* line 171
AnnotateDraw ==
    /\ pc = "done"
    /\ ann_pc = "draw"
    /\ \E out \in {TestImage, Raise("ProcessingError")} :
          AnnotateStep("draw_detections", out, "makedirs")
    /\ UNCHANGED <<files, dirs>>
    /\ AnnotateFrame

\* line 174: os.makedirs(dirname(output_path), exist_ok=True)
AnnotateMakedirs ==
    /\ pc = "done"
    /\ ann_pc = "makedirs"
    /\ \/ /\ AnnotateStep("makedirs", None, "save")
          /\ dirs' = dirs \cup {dirname(request.output_path)}
       \/ /\ AnnotateStep("makedirs", Raise("OSError"), "save")
          /\ UNCHANGED dirs
    /\ UNCHANGED files
    /\ AnnotateFrame

\* line 175
AnnotateSave ==
    /\ pc = "done"
    /\ ann_pc = "save"
    /\ \/ /\ AnnotateStep("save_image", None, "returned")
          /\ files' = files \cup {request.output_path}
       \/ /\ \E e \in {"ProcessingError", "FileError"} :
                AnnotateStep("save_image", Raise(e), "returned")
          /\ UNCHANGED files
    /\ UNCHANGED dirs
    /\ AnnotateFrame

AnnotateOutputs ==
    { Path("results", <<"o", ".", "j", "p", "g">>),
      Path("out", <<"o", ".", "j", "p", "g">>) }

\* detect_and_annotate called directly, lines 141-165
AnnotateEnter ==
    /\ pc = "idle"
    /\ \E p \in {ExistingPath, MissingPath}, o \in AnnotateOutputs,
          t \in {None, Float(DefaultThreshold), Float(ThrMax + 1)},
          e \in BOOLEAN, a \in BOOLEAN :
          /\ Enter("annotate", files, p, t, e, a)
          /\ request' = [framework |-> "direct", endpoint |-> "annotate",
                         input_path |-> p, output_path |-> o]
    /\ ann_pc' = "detect"
    /\ response' = None
    /\ UNCHANGED <<cfg, confidence_threshold, files, dirs, estimated_age,
                   age_out, combined_age_out, ser_result, ser_dict, fn_vars,
                   race_vars>>

\* one call of detect_and_annotate, on every configuration of the use case
AnnotateInit ==
    /\ cfg \in Configs
    /\ confidence_threshold = DefaultThreshold
    /\ files = {ExistingPath}
    /\ dirs = {"images", "uploads", "results"}
    /\ IdleLocals
    /\ request = None
    /\ ann_pc = "none"
    /\ FnIdle
    /\ RaceIdle
    /\ estimated_age = 0
    /\ age_out = None
    /\ combined_age_out = None
    /\ ser_result = DetectionResult("numpy_array", <<>>, 1, <<100, 80>>)
    /\ ser_dict = None

AnnotateNext ==
    \/ AnnotateEnter
    \/ SetThreshold
    \/ LoadImage
    \/ RunDetector
    \/ CropFace
    \/ CombinedCall
    \/ EmotionCall
    \/ AgeCall
    \/ BuildFace
    \/ FinishAnalysis
    \/ Return
    \/ AnnotateDetected
    \/ AnnotateLoad
    \/ AnnotateDraw
    \/ AnnotateMakedirs
    \/ AnnotateSave

AnnotateSpec == AnnotateInit /\ [][AnnotateNext]_vars

\* ------------------------------------- the HTTP handlers of both frameworks
\* _setup_dependencies: Flask wires all three analyzers, FastAPI none
FlaskConfig == [combined |-> TRUE, emotion |-> TRUE, age |-> TRUE]

FastApiConfig == [combined |-> FALSE, emotion |-> FALSE, age |-> FALSE]

\* a POST to /detect or /detect-and-annotate; FastAPI's handlers take no
\* emotions or age field
ApiRequests ==
    [framework : {"flask"}, endpoint : {"detect", "annotate"},
     has_image : BOOLEAN, filename : UploadNames, confidence : ThresholdArgs,
     emotions : BOOLEAN, age : BOOLEAN]
    \cup
    [framework : {"fastapi"}, endpoint : {"detect", "annotate"},
     has_image : BOOLEAN, filename : UploadNames, confidence : ThresholdArgs,
     emotions : {FALSE}, age : {FALSE}]

\* the name the upload is stored under: Flask sanitises it, FastAPI does not
stored_name(r) ==
    IF r.framework = "flask" THEN secure_filename(r.filename) ELSE r.filename

input_path(r) == upload_path(stored_name(r))

output_path(r) == Path("results", <<"annotated_">> \o stored_name(r))

HTTPException(status_code, detail) ==
    [kind |-> "raise", error |-> "HTTPException",
     status_code |-> status_code, detail |-> detail]

\* fastapi_app/api.py lines 63-75 and 112-124: what the validation raises
fastapi_validate(r) ==
    IF ~validate_image_file(r.filename)
        THEN HTTPException(400, "Unsupported image format")
    ELSE IF ~IsNone(r.confidence)
              /\ ~validate_confidence_threshold(r.confidence.v)
        THEN HTTPException(400, "Confidence threshold must be between 0.0 and 1.0")
    ELSE None

\* lines 99-102 and 151-154: the except clauses around the whole handler
\* body; HTTPException is an Exception and no DetectionError
fastapi_except(e) ==
    IF e.error \in DetectionErrors
        THEN HTTPException(400, e.error)
        ELSE HTTPException(500, e.error)

\* FastAPI's answer to an HTTPException that left the handler
fastapi_response(e) == Response(e.status_code, [detail |-> e.detail])

\* flask_app/api.py lines 133-152 and 177-184: the early return runs the
\* finally clause, which reads input_path and output_path before they are
\* bound; the UnboundLocalError reaches the handler of lines 194-196
flask_annotate_reject(r) ==
    IF IsNone(flask_reject(r)) THEN None
    ELSE Response(500, [error |-> "Internal server error"])

\* the response that ends the request before the use case is called, or None
http_reject(r) ==
    IF r.framework = "flask"
        THEN IF r.endpoint = "detect" THEN flask_reject(r)
             ELSE flask_annotate_reject(r)
    ELSE IF ~r.has_image
        THEN Response(422, [detail |-> "Field required"])
    ELSE IF ~IsNone(fastapi_validate(r))
        THEN fastapi_response(fastapi_except(fastapi_validate(r)))
    ELSE None

\* what the handler answers once the use case has returned or raised
http_response(r, h, out) ==
    IF out.kind = "ok"
        THEN IF r.endpoint = "detect"
                 THEN Response(200, [data |-> to_dict(Deref(h, out.ref)),
                                     file_id |-> 1])
                 ELSE Response(200, [file |-> r.output_path])
    ELSE IF r.framework = "flask"
        THEN flask_response(h, out)
        ELSE fastapi_response(fastapi_except(out))

\* the files left when the handler is over: Flask removes them in finally,
\* FastAPI after the use case has returned
http_cleanup(r, fs, out) ==
    IF r.framework = "flask"
        THEN IF r.endpoint = "detect" THEN fs \ {r.input_path}
             ELSE fs \ {r.input_path, r.output_path}
    ELSE IF out.kind = "ok"
        THEN IF r.endpoint = "detect" THEN fs \ {r.input_path}
             ELSE fs \ {r.input_path, r.output_path}
    ELSE fs

Received(r, in, out) ==
    [framework |-> r.framework, endpoint |-> r.endpoint,
     has_image |-> r.has_image, filename |-> r.filename,
     confidence |-> r.confidence, emotions |-> r.emotions, age |-> r.age,
     input_path |-> in, output_path |-> out]

\* the request is validated; if it passes, the upload is stored and the use
\* case is entered
HttpReceive ==
    /\ pc = "idle"
    /\ \E r \in ApiRequests :
          /\ cfg = IF r.framework = "flask" THEN FlaskConfig ELSE FastApiConfig
          /\ IF ~IsNone(http_reject(r))
                THEN /\ response' = http_reject(r)
                     /\ request' = Received(r, None, None)
                     /\ pc' = "responded"
                     /\ UNCHANGED <<files, ann_pc, caller, args, image, heap,
                                    result, det_result, updated_faces, idx,
                                    face_image, emotion_result, age_result,
                                    calls, outcome>>
                ELSE /\ files' = files \cup {input_path(r)}
                     /\ Enter("http", files \cup {input_path(r)}, input_path(r),
                              r.confidence, r.emotions, r.age)
                     /\ request' = Received(r, input_path(r), output_path(r))
                     /\ ann_pc' = IF r.endpoint = "annotate" THEN "detect"
                                  ELSE "none"
                     /\ response' = None
    /\ UNCHANGED <<cfg, confidence_threshold, dirs, estimated_age, age_out,
                   combined_age_out, ser_result, ser_dict, fn_vars, race_vars>>

\* the use case has returned or raised: the response, and the clean-up
HttpRespond ==
    /\ pc = "done"
    /\ caller = "http"
    /\ request.endpoint = "annotate" => ann_pc \in {"returned", "raised"}
    /\ response' = http_response(request, heap, outcome)
    /\ files' = http_cleanup(request, files, outcome)
    /\ pc' = "responded"
    /\ UNCHANGED <<cfg, confidence_threshold, dirs, request, ann_pc, caller,
                   args, image, heap, result, det_result, updated_faces, idx,
                   face_image, emotion_result, age_result, calls, outcome,
                   estimated_age, age_out, combined_age_out, ser_result,
                   ser_dict, fn_vars, race_vars>>

\* the response is sent; the next request may come
HttpFinish ==
    /\ pc = "responded"
    /\ DropFrame
    /\ request' = None
    /\ response' = None
    /\ ann_pc' = "none"
    /\ UNCHANGED <<cfg, confidence_threshold, files, dirs, estimated_age,
                   age_out, combined_age_out, ser_result, ser_dict, fn_vars,
                   race_vars>>

ApiInit ==
    /\ cfg \in {FlaskConfig, FastApiConfig}
    /\ confidence_threshold = DefaultThreshold
    /\ files = {ExistingPath}
    /\ dirs = {"images", "uploads", "results"}
    /\ IdleLocals
    /\ request = None
    /\ ann_pc = "none"
    /\ FnIdle
    /\ RaceIdle
    /\ estimated_age = 0
    /\ age_out = None
    /\ combined_age_out = None
    /\ ser_result = DetectionResult("numpy_array", <<>>, 1, <<100, 80>>)
    /\ ser_dict = None

ApiNext ==
    \/ SetThreshold
    \/ LoadImage
    \/ RunDetector
    \/ CropFace
    \/ CombinedCall
    \/ EmotionCall
    \/ AgeCall
    \/ BuildFace
    \/ FinishAnalysis
    \/ Return
    \/ AnnotateDetected
    \/ AnnotateLoad
    \/ AnnotateDraw
    \/ AnnotateMakedirs
    \/ AnnotateSave
    \/ HttpReceive
    \/ HttpRespond
    \/ HttpFinish

ApiSpec == ApiInit /\ [][ApiNext]_vars

\* ------------------------------------- DeepFace analyzers: the temporary file
\* detect_emotion, detect_age and detect_emotion_and_age share one body: the
\* format test, the resize, the temporary file, the inference and the unlink
image_of(h, w, channels, dtype) ==
    [kind |-> "ndarray", shape |-> <<h, w, channels>>, dtype |-> dtype]

\* cv2.cvtColor accepts 8-bit, 16-bit and 32-bit float pixels only
cvtColor_accepts(img) == img.dtype \in {"uint8", "float32"}

\* the except clause closing each analyzer: what any other exception becomes
analyzer_error(error) ==
    IF error \in {"ModelNotLoadedError", "ProcessingError"} THEN error
    ELSE "ProcessingError"

\* the side of the square the face is resized to when it is under 48 px
resized(img) ==
    IF img.shape[1] < 48 \/ img.shape[2] < 48
        THEN LET target_size == Max2(48, Max2(img.shape[1], img.shape[2]))
             IN  [img EXCEPT !.shape = <<target_size, target_size, img.shape[3]>>]
        ELSE img

AnalyzerOps == {"detect_emotion", "detect_age", "detect_emotion_and_age"}

TempPath == Path("tmp", <<"t", "1", ".", "j", "p", "g">>)

FaceImages ==
    { image_of(h, h, c, d) : h \in {10, 48, 60}, c \in {1, 3},
                             d \in {"uint8", "float32", "float64"} }

\* what DeepFace.analyze and the code after it give for each analyzer
InferenceOutcomes(op) ==
    {Raise("ValueError")} \cup
    ( ( CASE op = "detect_emotion" -> EmotionOutcomes
          [] op = "detect_age" -> AgeOutcomes
          [] OTHER -> CombinedOutcomes ) \ {Raise("ProcessingError")} )

AnalyzerStart(op, loaded, face) ==
    [op |-> op, model_loaded |-> loaded, face_image |-> face, pc |-> "check",
     face_rgb |-> None, tmp_file |-> None, pending |-> None, out |-> None]

TempInit ==
    /\ PureInit
    /\ RaceIdle
    /\ crop_in = None
    /\ crop_out = None
    /\ val_in = None
    /\ val_out = None
    /\ idem = None
    /\ analyzer \in { AnalyzerStart(op, loaded, face) :
                        op \in AnalyzerOps, loaded \in BOOLEAN,
                        face \in FaceImages }

TempFrame ==
    UNCHANGED <<cfg, confidence_threshold, detect_vars, response,
                estimated_age, age_out, combined_age_out, ser_result,
                ser_dict, crop_in, crop_out, val_in, val_out, idem, race_vars,
                api_vars>>

\* the model_loaded test and the format test and resize that open the try
AnalyzerCheck ==
    /\ analyzer.pc = "check"
    /\ analyzer' =
          IF ~analyzer.model_loaded
              THEN [analyzer EXCEPT !.pc = "raised",
                                    !.out = Raise("ModelNotLoadedError")]
          ELSE IF analyzer.face_image.shape[3] # 3
              THEN [analyzer EXCEPT
                      !.pc = "raised",
                      !.out = Raise(analyzer_error("ProcessingError"))]
          ELSE [analyzer EXCEPT !.pc = "create",
                                !.face_rgb = resized(analyzer.face_image)]
    /\ UNCHANGED files
    /\ TempFrame

\* tempfile.NamedTemporaryFile(suffix='.jpg', delete=False): the file exists
\* from here on and closing it does not remove it
AnalyzerCreateTemp ==
    /\ analyzer.pc = "create"
    /\ files' = files \cup {TempPath}
    /\ analyzer' = [analyzer EXCEPT !.pc = "convert", !.tmp_file = TempPath]
    /\ TempFrame

\* cv2.cvtColor(face_rgb, cv2.COLOR_RGB2BGR), inside the with block and before
\* the inner try: its exception goes to the outer except clause
AnalyzerConvert ==
    /\ analyzer.pc = "convert"
    /\ analyzer' =
          IF cvtColor_accepts(analyzer.face_rgb)
              THEN [analyzer EXCEPT !.pc = "write"]
              ELSE [analyzer EXCEPT !.pc = "raised",
                                    !.out = Raise(analyzer_error("cv2.error"))]
    /\ UNCHANGED files
    /\ TempFrame

\* cv2.imwrite(tmp_file.name, face_bgr); its boolean answer is not read
AnalyzerWrite ==
    /\ analyzer.pc = "write"
    /\ analyzer' = [analyzer EXCEPT !.pc = "infer"]
    /\ UNCHANGED files
    /\ TempFrame

\* the inner try: DeepFace.analyze and the result built from its answer
AnalyzerInfer ==
    /\ analyzer.pc = "infer"
    /\ \E out \in InferenceOutcomes(analyzer.op) :
          analyzer' = [analyzer EXCEPT !.pc = "finally", !.pending = out]
    /\ UNCHANGED files
    /\ TempFrame

\* the finally clause: os.unlink(tmp_file.name), then the return or the raise
AnalyzerUnlink ==
    /\ analyzer.pc = "finally"
    /\ files' = files \ {analyzer.tmp_file}
    /\ analyzer' =
          IF IsRaise(analyzer.pending)
              THEN [analyzer EXCEPT
                      !.pc = "raised",
                      !.out = Raise(analyzer_error(analyzer.pending.error))]
              ELSE [analyzer EXCEPT !.pc = "returned",
                                    !.out = analyzer.pending]
    /\ TempFrame

TempNext ==
    \/ AnalyzerCheck
    \/ AnalyzerCreateTemp
    \/ AnalyzerConvert
    \/ AnalyzerWrite
    \/ AnalyzerInfer
    \/ AnalyzerUnlink

TempSpec == TempInit /\ [][TempNext]_vars

\* ------------------------------ the threshold a detect call leaves behind
\* one detect call with any arguments, then a later call on a good image
\* that supplies no threshold; each records its outcome and the threshold
\* the detector holds when it ends
LaterLoads == {TestImage}

ThrInit ==
    /\ cfg = [combined |-> TRUE, emotion |-> TRUE, age |-> TRUE]
    /\ confidence_threshold \in StoredThresholds
    /\ files = {ExistingPath}
    /\ IdleLocals
    /\ estimated_age = 0
    /\ age_out = None
    /\ combined_age_out = None
    /\ ser_result = DetectionResult("numpy_array", <<>>, 1, <<100, 80>>)
    /\ ser_dict = None
    /\ RaceIdle
    /\ ApiIdle
    /\ crop_in = None
    /\ crop_out = None
    /\ val_in = None
    /\ val_out = None
    /\ analyzer = None
    /\ idem \in [image_path : {ExistingPath, MissingPath},
                  threshold : ThresholdArgs,
                  load : LoadOutcomes,
                  backend : BackendAnswers,
                  later_load : LaterLoads,
                  later_backend : BackendAnswers,
                  before : {confidence_threshold},
                  first : {None}, second : {None}]

ThrFirstDetect ==
    /\ idem.first = None
    /\ LET r == detect_plain(confidence_threshold, files, idem.image_path,
                             idem.threshold, idem.load, idem.backend, 1)
       IN  /\ idem' = [idem EXCEPT !.first = r]
           /\ confidence_threshold' = r.threshold
    /\ IdemFrame

ThrLaterDetect ==
    /\ idem.first # None
    /\ idem.second = None
    /\ LET r == detect_plain(confidence_threshold, files, ExistingPath, None,
                             idem.later_load, idem.later_backend, 1)
       IN  /\ idem' = [idem EXCEPT !.second = r]
           /\ confidence_threshold' = r.threshold
    /\ IdemFrame

ThrNext == ThrFirstDetect \/ ThrLaterDetect

ThrSpec == ThrInit /\ [][ThrNext]_vars

Next ==
    \/ DirectCall
    \/ SetThreshold
    \/ LoadImage
    \/ RunDetector
    \/ CropFace
    \/ CombinedCall
    \/ EmotionCall
    \/ AgeCall
    \/ BuildFace
    \/ FinishAnalysis
    \/ Return
    \/ DirectDone
    \/ FlaskDetect
    \/ FlaskRespond

Spec == Init /\ [][Next]_vars

\* =================================================================== claims

\* --------------------------------------------------------------------- C10
\* the bracket table of the age-range policy, in whole years
BracketTable(a) ==
    IF a < 18 THEN <<Max2(0, a - 3), Min2(25, a + 3)>>
    ELSE IF a < 30 THEN <<Max2(18, a - 4), Min2(35, a + 4)>>
    ELSE IF a < 50 THEN <<Max2(25, a - 5), Min2(60, a + 5)>>
    ELSE <<Max2(40, a - 8), Min2(120, a + 8)>>

WholeYears == estimated_age % AgeScale = 0

Years == estimated_age \div AgeScale

AgeOutputs == {o \in {age_out, combined_age_out} : ~IsNone(o)}

\* C10: for every estimated age that is a whole number of years a >= 0, the
\* range either analyzer returns is the bracket table's: half-width 3 with
\* bounds [0,25] below 18, 4 with [18,35] below 30, 5 with [25,60] below 50,
\* 8 with [40,120] from 50 on; so 10 -> (7,13), 25 -> (21,29), 40 -> (35,45),
\* 70 -> (62,78).
C10_AgeBracketTable ==
    \A o \in AgeOutputs :
        WholeYears =>
            /\ o.age_range = BracketTable(Years)
            /\ (Years = 10 => o.age_range = <<7, 13>>)
            /\ (Years = 25 => o.age_range = <<21, 29>>)
            /\ (Years = 40 => o.age_range = <<35, 45>>)
            /\ (Years = 70 => o.age_range = <<62, 78>>)

C10_Witness ==
    /\ WholeYears
    /\ Years = 70
    /\ ~IsNone(age_out)
    /\ ~IsNone(combined_age_out)
    /\ age_out.age_range = <<62, 78>>
    /\ combined_age_out.age_range = <<62, 78>>

\* ---------------------------------------------------------------------- C4
Serialized == ser_dict # None

BaseKeys == {"bbox", "confidence", "width", "height", "area"}

\* C4: the serialized form of every face holds bbox, confidence, width,
\* height and area, a landmarks list exactly when the face has landmarks, an
\* emotion sub-object exactly when the face carries an EmotionResult and an
\* age sub-object exactly when it carries an AgeResult.
C4_SerializedFields ==
    Serialized =>
        \A i \in 1..Len(ser_result.faces) :
            LET f == ser_result.faces[i]
                d == ser_dict.faces[i]
            IN  /\ BaseKeys \subseteq DOMAIN d
                /\ ("landmarks" \in DOMAIN d) <=> Truthy(f.landmarks)
                /\ ("emotion" \in DOMAIN d) <=> ~IsNone(f.emotion)
                /\ ("age" \in DOMAIN d) <=> ~IsNone(f.age)

\* ---------------------------------------------------------------------- C5
\* C5: for every DetectionResult get_face_count() is the length of faces and
\* has_faces() is (face count > 0); in the serialized form face_count is the
\* number of entries of faces[], which follow the order of the result's
\* faces, and has_faces is (face_count > 0).
C5_FaceCount ==
    /\ get_face_count(ser_result) = Len(ser_result.faces)
    /\ has_faces(ser_result) = (get_face_count(ser_result) > 0)
    /\ Serialized =>
          /\ ser_dict.face_count = Len(ser_dict.faces)
          /\ ser_dict.has_faces = (ser_dict.face_count > 0)
          /\ Len(ser_dict.faces) = Len(ser_result.faces)
          /\ \A i \in 1..Len(ser_dict.faces) :
                /\ ser_dict.faces[i].bbox.x1 = ser_result.faces[i].bbox[1]
                /\ ser_dict.faces[i].bbox.y2 = ser_result.faces[i].bbox[4]
                /\ ser_dict.faces[i].confidence = ser_result.faces[i].confidence

C5_Witness ==
    /\ Serialized
    /\ ser_dict.face_count = 2
    /\ ser_dict.has_faces
    /\ ser_result.faces[1].bbox # ser_result.faces[2].bbox
    /\ ser_dict.faces[1].bbox.x1 = ser_result.faces[1].bbox[1]
    /\ ser_dict.faces[2].bbox.x1 = ser_result.faces[2].bbox[1]

\* ------------------------------------------- reading the log of one call
CallIdx == 1..Len(calls)

CallsOf(i, op) == {p \in CallIdx : calls[p].face = i /\ calls[p].op = op}

FaceCalls(i) == {p \in CallIdx : calls[p].face = i}

AnalyzerCalls == {p \in CallIdx : calls[p].face > 0}

Failed(i) == {p \in FaceCalls(i) : IsRaise(calls[p].out)}

Last(S) == CHOOSE p \in S : \A q \in S : q <= p

EmotionOf(c) == IF c.op = "detect_emotion_and_age" THEN c.out.emotion ELSE c.out

AgeOf(c) == IF c.op = "detect_emotion_and_age" THEN c.out.age ELSE c.out

\* the calls for face i that returned an emotion (an age)
EmotionGivers(i) ==
    {p \in FaceCalls(i) \ Failed(i) :
        /\ calls[p].op \in {"detect_emotion_and_age", "detect_emotion"}
        /\ ~IsNone(EmotionOf(calls[p]))}

AgeGivers(i) ==
    {p \in FaceCalls(i) \ Failed(i) :
        /\ calls[p].op \in {"detect_emotion_and_age", "detect_age"}
        /\ ~IsNone(AgeOf(calls[p]))}

\* what the analyzers produced for face i
EmotionProduced(i) ==
    IF EmotionGivers(i) = {} THEN None ELSE EmotionOf(calls[Last(EmotionGivers(i))])

AgeProduced(i) ==
    IF AgeGivers(i) = {} THEN None ELSE AgeOf(calls[Last(AgeGivers(i))])

DetectorReturned == det_result # 0

EnrichmentRequested == args.detect_emotions \/ args.detect_age

\* the faces of the detector's result and of the returned result, by value
DetFace(i) == heap[heap[det_result].faces[i]]

OutFace(i) == heap[heap[outcome.ref].faces[i]]

\* ---------------------------------------------------------------------- C1
\* C1: when enrichment is requested and the face detector returned N faces,
\* detect returns normally whatever analyzer calls raise, with exactly N
\* faces in the detector's order; a face whose analysis raised carries no
\* emotion/age from the failed call, and every face carries exactly the
\* emotion and age its analyzer calls returned.
C1_FaultIsolation ==
    (pc = "done" /\ DetectorReturned /\ EnrichmentRequested) =>
        /\ outcome.kind = "ok"
        /\ Len(heap[outcome.ref].faces) = Len(heap[det_result].faces)
        /\ \A i \in 1..Len(heap[det_result].faces) :
              /\ OutFace(i).bbox = DetFace(i).bbox
              /\ OutFace(i).confidence = DetFace(i).confidence
              /\ OutFace(i).emotion = EmotionProduced(i)
              /\ OutFace(i).age = AgeProduced(i)

\* two faces; every call for face 1 raised, none for face 2 did
C1_Witness ==
    /\ pc = "done"
    /\ DetectorReturned
    /\ outcome.kind = "ok"
    /\ Len(heap[det_result].faces) = 2
    /\ Failed(1) # {}
    /\ Failed(1) = FaceCalls(1)
    /\ Failed(2) = {}
    /\ IsNone(OutFace(1).emotion) /\ IsNone(OutFace(1).age)
    /\ ~IsNone(OutFace(2).emotion) /\ ~IsNone(OutFace(2).age)

\* ---------------------------------------------------------------------- C2
\* C2: a detect call with a path that does not exist fails with FileError
\* ("Image file not found") at once: the detector's threshold is not set and
\* keeps its value, the image is not loaded, the face detector and the
\* analyzers are not invoked.
C2_MissingPath ==
    [][ /\ (pc = "idle" /\ pc' # "idle" /\ args'.image_path \notin files') =>
              /\ pc' = "done"
              /\ outcome' = Raise("FileError")
              /\ calls' = <<>>
              /\ confidence_threshold' = confidence_threshold
              /\ image' = None
              /\ det_result' = 0
        /\ (pc = "done" /\ args.image_path \notin files) =>
              /\ pc' = "idle"
              /\ confidence_threshold' = confidence_threshold
              /\ calls' = <<>>
      ]_vars

C2_Witness ==
    /\ pc = "done"
    /\ args.image_path = MissingPath
    /\ outcome = Raise("FileError")
    /\ calls = <<>>
    /\ ~IsNone(args.confidence_threshold)
    /\ args.confidence_threshold.v = ThrMax
    /\ confidence_threshold = DefaultThreshold

\* ---------------------------------------------------------------------- C3
ThresholdGiven == ~IsNone(args.confidence_threshold)

GivenInRange ==
    0 <= args.confidence_threshold.v /\ args.confidence_threshold.v <= 10

\* the setter's contract, at the step of detect that invokes it
SetterContract ==
    (pc = "set_threshold" /\ ThresholdGiven) =>
        IF GivenInRange
            THEN /\ confidence_threshold' = args.confidence_threshold.v
                 /\ pc' = "load"
                 /\ outcome' = None
            ELSE /\ confidence_threshold' = confidence_threshold
                 /\ pc' = "done"
                 /\ outcome' = Raise("ValueError")
                 /\ image' = None
                 /\ det_result' = 0
                 /\ \A p \in 1..Len(calls') :
                       calls'[p].op = "set_confidence_threshold"

\* C3 (as amended): set_confidence_threshold(t) stores t for every t with
\* 0 <= t <= 1 and for every other t fails with ValueError and leaves the
\* stored threshold unchanged; a detect call on an existing path given an
\* out-of-range threshold fails with ValueError before the image is loaded
\* or the face detector is run.
C3_ThresholdRange == [][SetterContract]_vars

C3_Witness ==
    /\ pc = "done"
    /\ outcome = Raise("ValueError")
    /\ args.confidence_threshold.v = ThrMax + 1
    /\ confidence_threshold = ThrMax
    /\ Len(calls) = 1

\* C3 as first stated: every detect call given an out-of-range threshold
\* fails with ValueError.
C3_Original ==
    [][ /\ SetterContract
        /\ (pc # "done" /\ pc' = "done" /\ ~IsNone(args'.confidence_threshold)
              /\ ~( 0 <= args'.confidence_threshold.v
                    /\ args'.confidence_threshold.v <= 10 )) =>
                 outcome' = Raise("ValueError")
      ]_vars

\* ------------------------------------------------ progress of the analysis
\* the loop of _add_facial_analysis runs or has run over the detector's faces
InAnalysis ==
    /\ DetectorReturned
    /\ EnrichmentRequested
    /\ Len(heap[det_result].faces) > 0

DetCount == Len(heap[det_result].faces)

LoopOver == pc \in {"finish", "return", "done"}

CombinedStepDone(i) ==
    i < idx \/ (i = idx /\ pc \in {"emotion", "age", "build"}) \/ LoopOver

EmotionStepDone(i) ==
    i < idx \/ (i = idx /\ pc \in {"age", "build"}) \/ LoopOver

AgeStepDone(i) == i < idx \/ (i = idx /\ pc = "build") \/ LoopOver

\* the face is analysed: its crop passed the size test of line 90
Analysed(i) == ~too_small(crop(image, DetFace(i).bbox))

CombinedOp == "detect_emotion_and_age"

ReturnedBoth(c) ==
    ~IsRaise(c.out) /\ ~IsNone(c.out.emotion) /\ ~IsNone(c.out.age)

CombinedGaveEmotion(i) ==
    \E q \in CallsOf(i, CombinedOp) :
        ~IsRaise(calls[q].out) /\ ~IsNone(calls[q].out.emotion)

CombinedGaveAge(i) ==
    \E q \in CallsOf(i, CombinedOp) :
        ~IsRaise(calls[q].out) /\ ~IsNone(calls[q].out.age)

RaisedIn(i, op) == \E p \in CallsOf(i, op) : IsRaise(calls[p].out)

\* ---------------------------------------------------------------------- C6
\* C6: for each analysed face the combined analyzer is called if and only if
\* emotions and age are both requested and a combined analyzer is
\* configured; it is called at most once and before any other analyzer call
\* for that face; when it returns both an emotion and an age, neither
\* individual analyzer is called for that face.
C6_CombinedFirst ==
    InAnalysis =>
        \A i \in 1..DetCount :
            /\ ~CombinedStepDone(i) => FaceCalls(i) = {}
            /\ (CombinedStepDone(i) /\ Analysed(i)) =>
                  /\ (CallsOf(i, CombinedOp) # {}) <=>
                        (args.detect_emotions /\ args.detect_age /\ cfg.combined)
                  /\ Cardinality(CallsOf(i, CombinedOp)) <= 1
                  /\ \A q \in CallsOf(i, CombinedOp) :
                        /\ \A p \in FaceCalls(i) : q <= p
                        /\ ReturnedBoth(calls[q]) =>
                              /\ CallsOf(i, "detect_emotion") = {}
                              /\ CallsOf(i, "detect_age") = {}

\* both individual analyzers are configured, and the combined call that
\* returned both results is the only call for face 1
C6_Witness ==
    /\ pc = "done"
    /\ InAnalysis
    /\ cfg.emotion /\ cfg.age
    /\ Analysed(1)
    /\ Cardinality(FaceCalls(1)) = 1
    /\ \E q \in CallsOf(1, CombinedOp) : ReturnedBoth(calls[q])
    /\ OutFace(1).emotion = CombinedEmotion
    /\ OutFace(1).age = CombinedAge

\* ---------------------------------------------------------------------- C7
\* C7: for each analysed face the emotion analyzer is called exactly when
\* emotions are requested, the combined call (if any) left no emotion and an
\* emotion analyzer is configured, and likewise the age analyzer, each at
\* most once and whatever the other call did; the returned face keeps
\* exactly the results that succeeded, and an analyzer that is not
\* configured leaves the face as one that raised does.
C7_IndependentFallback ==
    InAnalysis =>
        \A i \in 1..DetCount :
            /\ EmotionStepDone(i) =>
                  /\ (CallsOf(i, "detect_emotion") # {}) <=>
                        /\ Analysed(i)
                        /\ args.detect_emotions
                        /\ cfg.emotion
                        /\ ~CombinedGaveEmotion(i)
                  /\ Cardinality(CallsOf(i, "detect_emotion")) <= 1
            /\ AgeStepDone(i) =>
                  /\ (CallsOf(i, "detect_age") # {}) <=>
                        /\ Analysed(i)
                        /\ args.detect_age
                        /\ cfg.age
                        /\ ~CombinedGaveAge(i)
                  /\ Cardinality(CallsOf(i, "detect_age")) <= 1
            /\ pc = "done" =>
                  /\ OutFace(i).emotion = EmotionProduced(i)
                  /\ OutFace(i).age = AgeProduced(i)
                  /\ ((~cfg.emotion \/ RaisedIn(i, "detect_emotion"))
                        /\ ~CombinedGaveEmotion(i)) => IsNone(OutFace(i).emotion)
                  /\ ((~cfg.age \/ RaisedIn(i, "detect_age"))
                        /\ ~CombinedGaveAge(i)) => IsNone(OutFace(i).age)

\* the combined call and the emotion call raised, the age call still ran and
\* its result is kept
C7_Witness ==
    /\ pc = "done"
    /\ InAnalysis
    /\ RaisedIn(1, CombinedOp)
    /\ RaisedIn(1, "detect_emotion")
    /\ CallsOf(1, "detect_age") # {}
    /\ ~RaisedIn(1, "detect_age")
    /\ IsNone(OutFace(1).emotion)
    /\ OutFace(1).age = AgeProduced(1)
    /\ ~IsNone(OutFace(1).age)

\* ---------------------------------------------------------------------- C8
NothingToEnrich == ~EnrichmentRequested \/ Len(heap[det_result].faces) = 0

\* C8: when neither flag is set, or the detector found no face, detect
\* returns the very result the face detector returned, allocates nothing
\* after it and invokes no analyzer; the Flask handler answers a zero-face
\* result with status 200, face_count 0 and faces [].
C8_NothingToEnrich ==
    [][ /\ (pc = "return" /\ pc' = "done" /\ NothingToEnrich) =>
              /\ outcome' = Ok(det_result)
              /\ heap' = heap
              /\ Len(heap) = det_result
              /\ AnalyzerCalls = {}
        /\ (pc = "done" /\ caller = "flask" /\ pc' = "idle"
              /\ outcome.kind = "ok" /\ Len(heap[outcome.ref].faces) = 0) =>
              /\ response'.status = 200
              /\ response'.body.data.face_count = 0
              /\ response'.body.data.has_faces = FALSE
              /\ response'.body.data.faces = <<>>
      ]_vars

\* a zero-face upload was answered
C8_Witness ==
    /\ pc = "idle"
    /\ response.kind = "response"
    /\ response.status = 200
    /\ response.body.data.face_count = 0
    /\ response.body.data.faces = <<>>

\* ---------------------------------------------------------------------- C9
\* C9: when enrichment runs, detect returns a new DetectionResult whose face
\* list has the length and order of the detector's, each face with its
\* original bbox, confidence and landmarks, and with the detector's
\* image_path, processing_time and original_image_size; no object the call
\* has allocated is ever written again.
C9_NewResult ==
    [][ /\ \A r \in 1..Len(heap) : Len(heap') >= r => heap'[r] = heap[r]
        /\ (pc = "return" /\ pc' = "done" /\ InAnalysis) =>
              /\ outcome' = Ok(result)
              /\ result # det_result
              /\ Len(heap[result].faces) = Len(heap[det_result].faces)
              /\ \A i \in 1..Len(heap[det_result].faces) :
                    LET new == heap[heap[result].faces[i]]
                    IN  /\ new.bbox = DetFace(i).bbox
                        /\ new.confidence = DetFace(i).confidence
                        /\ new.landmarks = DetFace(i).landmarks
              /\ heap[result].image_path = heap[det_result].image_path
              /\ heap[result].processing_time = heap[det_result].processing_time
              /\ heap[result].original_image_size =
                    heap[det_result].original_image_size
      ]_vars

\* an enriched face was returned and the detector's face object still has
\* no emotion
C9_Witness ==
    /\ pc = "done"
    /\ InAnalysis
    /\ outcome.kind = "ok"
    /\ outcome.ref # det_result
    /\ ~IsNone(OutFace(1).emotion)
    /\ IsNone(DetFace(1).emotion)
    /\ heap[outcome.ref].faces[1] # heap[det_result].faces[1]

\* --------------------------------------------------------------------- C11
DetectorFailed ==
    \E p \in CallIdx : calls[p].op = "detect_faces" /\ IsRaise(calls[p].out)

\* C11: once the face detector has failed, the detect call is over: its
\* outcome is an error raised to the caller, no DetectionResult and no face
\* object exists (so none, partial or otherwise, is returned), and no
\* analyzer has been invoked.
C11_DetectorFailureAborts ==
    DetectorFailed =>
        /\ pc = "done"
        /\ IsRaise(outcome)
        /\ heap = <<>>
        /\ result = 0
        /\ det_result = 0
        /\ AnalyzerCalls = {}

\* the detector failed in a call that asked for both analyses with every
\* analyzer configured
C11_Witness ==
    /\ pc = "done"
    /\ DetectorFailed
    /\ args.detect_emotions /\ args.detect_age
    /\ cfg.combined /\ cfg.emotion /\ cfg.age
    /\ outcome = Raise("InvalidImageError")

\* --------------------------------------------------------------------- C12
\* what the loader handed back is no usable image
NoImage(out) ==
    \/ out = None
    \/ out = Raise("InvalidImageError")
    \/ (out.kind = "ndarray" /\ (out.shape[1] = 0 \/ out.shape[2] = 0))

LoaderGaveNoImage ==
    \E p \in CallIdx : calls[p].op = "load_image" /\ NoImage(calls[p].out)

\* C12: once the image loader has returned None or an empty image, or has
\* raised InvalidImageError, the detect call is over with InvalidImageError;
\* the face detector's detect_faces and the analyzers have not been invoked.
C12_NoImage ==
    LoaderGaveNoImage =>
        /\ pc = "done"
        /\ outcome = Raise("InvalidImageError")
        /\ \A p \in CallIdx : calls[p].op # "detect_faces"
        /\ AnalyzerCalls = {}
        /\ det_result = 0

\* the loader returned an empty array in a call that asked for both analyses
C12_Witness ==
    /\ pc = "done"
    /\ \E p \in CallIdx : calls[p].op = "load_image" /\ calls[p].out = EmptyImage
    /\ args.detect_emotions /\ args.detect_age
    /\ outcome = Raise("InvalidImageError")

\* --------------------------------------------------------------------- C20
\* the part of the box that lies inside the image
ClippedHeight(img, bbox) ==
    Max2(0, Min2(bbox[4], img.shape[1]) - Max2(bbox[2], 0))

ClippedWidth(img, bbox) ==
    Max2(0, Min2(bbox[3], img.shape[2]) - Max2(bbox[1], 0))

\* C20: the crop handed to the analyzers is the face's bounding box clipped
\* to the image: its height and width are those of the intersection of the
\* box with the image, also for a box with negative x1 or y1, and the face
\* is analysed exactly when that intersection is at least 10 px both ways.
C20_CropClipped ==
    crop_out # None =>
        LET ch == ClippedHeight(crop_in.image, crop_in.face.bbox)
            cw == ClippedWidth(crop_in.image, crop_in.face.bbox)
        IN  /\ crop_out.face_image.shape[1] = ch
            /\ crop_out.face_image.shape[2] = cw
            /\ crop_out.analysed <=> (ch >= MinFaceDim /\ cw >= MinFaceDim)

\* --------------------------------------------------------------------- C15
ExtensionList ==
    { <<".", "j", "p", "g">>, <<".", "j", "p", "e", "g">>,
      <<".", "p", "n", "g">>, <<".", "b", "m", "p">>,
      <<".", "t", "i", "f", "f">>, <<".", "w", "e", "b", "p">> }

CasePairs ==
    { <<"j", "J">>, <<"p", "P">>, <<"g", "G">>, <<"e", "E">>, <<"n", "N">>,
      <<"b", "B">>, <<"m", "M">>, <<"t", "T">>, <<"i", "I">>, <<"f", "F">>,
      <<"w", "W">> }

SameLetter(a, b) == a = b \/ <<a, b>> \in CasePairs \/ <<b, a>> \in CasePairs

\* the last Len(ext) characters of name spell ext, whatever their case
HasExtension(name, ext) ==
    /\ Len(name) >= Len(ext)
    /\ \A k \in 1..Len(ext) :
          SameLetter(name[Len(name) - Len(ext) + k], ext[k])

\* C15: validate_image_file(name) is true exactly when name ends,
\* case-insensitively, with one of .jpg .jpeg .png .bmp .tiff .webp;
\* validate_confidence_threshold(t) is true exactly when 0 <= t <= 1, both
\* ends included; a second application answers the same and nothing else
\* changes.
C15_ValidationPredicates ==
    [][ /\ val_out'.image_file <=>
              \E ext \in ExtensionList : HasExtension(val_in.name, ext)
        /\ val_out'.threshold <=>
              (val_in.threshold >= 0 /\ val_in.threshold <= 10)
        /\ val_out # None => val_out' = val_out
        /\ val_in' = val_in
        /\ confidence_threshold' = confidence_threshold
        /\ files' = files
      ]_vars

\* an upper-case extension and the upper end of the interval were accepted
C15_Witness ==
    /\ val_out # None
    /\ val_in.name = <<"a", ".", "W", "E", "B", "P">>
    /\ val_in.threshold = 10
    /\ val_out.image_file
    /\ val_out.threshold

\* --------------------------------------------------------------------- C14
BothDone == idem # None /\ idem.first # None /\ idem.second # None

\* C14: two detect calls in sequence on the same image with the same
\* threshold argument and no enrichment, against a backend that answers the
\* same for the same image, end alike; when they return, the two results
\* hold the same faces with the same bounding boxes in the same order and
\* differ at most in processing_time.
C14_Idempotent ==
    BothDone =>
        /\ idem.second.kind = idem.first.kind
        /\ IsRaise(idem.first) => idem.second = idem.first
        /\ idem.first.kind = "result" =>
              /\ idem.second.value.faces = idem.first.value.faces
              /\ [idem.second.value EXCEPT !.processing_time = 0] =
                    [idem.first.value EXCEPT !.processing_time = 0]

\* two calls that set the threshold to 0.5 returned the same two different
\* faces and differ in processing_time
C14_Witness ==
    /\ BothDone
    /\ idem.threshold = Float(DefaultThreshold)
    /\ idem.first.kind = "result"
    /\ idem.second.kind = "result"
    /\ Len(idem.first.value.faces) = 2
    /\ idem.first.value.faces[1].bbox # idem.first.value.faces[2].bbox
    /\ idem.second.value.faces = idem.first.value.faces
    /\ idem.first.value.processing_time # idem.second.value.processing_time

\* --------------------------------------------------------------------- C13
\* the value the detector's threshold has after the first n writes
Written(n) == IF n = 0 THEN DefaultThreshold ELSE writes[n].value

RECURSIVE KeptBy(_, _)
\* the detections a thread kept, given the thresholds it read
KeptBy(detections, reads) ==
    IF reads = <<>> THEN <<>>
    ELSE LET rest == KeptBy(Tail(detections), Tail(reads))
         IN  IF Head(detections).confidence >= Head(reads).value
                 THEN <<Head(detections).confidence>> \o rest
                 ELSE rest

\* C13: the detector's threshold is shared by the running detect calls and
\* is last-write-wins: it always holds the value of the latest write,
\* whichever call made it, and every filter decision of every call uses the
\* value that was written last when the decision was made, so also a value
\* written by the other call; nothing else the calls share changes.
C13_SharedThreshold ==
    /\ confidence_threshold = Written(Len(writes))
    /\ \A i \in DOMAIN threads :
          /\ \A r \in 1..Len(threads[i].reads) :
                threads[i].reads[r].value = Written(threads[i].reads[r].at)
          /\ [f \in 1..Len(threads[i].faces) |-> threads[i].faces[f].confidence] =
                KeptBy(threads[i].detections, threads[i].reads)
    /\ cfg = [combined |-> TRUE, emotion |-> TRUE, age |-> TRUE]
    /\ files = {ExistingPath}

\* call 1 asked for threshold 1.0, yet it kept a face of confidence 0.5: its
\* filter read the 0.0 that call 2 wrote after call 1's own write
C13_Witness ==
    /\ threads # <<>>
    /\ threads[1].pc = "done"
    /\ threads[1].threshold = ThrMax
    /\ threads[2].threshold = ThrMin
    /\ Len(writes) = 2
    /\ writes[1].by = 1
    /\ writes[2].by = 2
    /\ \E f \in 1..Len(threads[1].faces) :
          threads[1].faces[f].confidence = DefaultThreshold
    /\ \E r \in 1..Len(threads[1].reads) : threads[1].reads[r].at = 2

\* --------------------------------------------------------------------- C16
Responded == pc = "responded" /\ request # None

UnsupportedName(name) ==
    ~\E ext \in ExtensionList : HasExtension(name, ext)

\* the request carries a file whose name has no supported extension, or a
\* confidence outside [0, 1]
RequestInvalid ==
    /\ request.has_image
    /\ \/ UnsupportedName(request.filename)
       \/ /\ request.confidence # None
          /\ (request.confidence.v < 0 \/ request.confidence.v > 10)

\* C16: at both HTTP boundaries and for both endpoints, a request with an
\* unsupported extension or a confidence outside [0, 1] is answered with a
\* 4xx status, and the use case is never entered for it.
C16_ValidatedFirst ==
    /\ (request # None /\ request.framework # "direct" /\ RequestInvalid) =>
          /\ caller = "none"
          /\ calls = <<>>
          /\ outcome = None
    /\ (Responded /\ RequestInvalid) =>
          (response.status >= 400 /\ response.status <= 499)

\* --------------------------------------------------------------------- C17
DomainErrorKinds ==
    {"ModelNotLoadedError", "InvalidImageError", "ProcessingError", "FileError"}

UseCaseFailed == Responded /\ caller = "http" /\ IsRaise(outcome)

StatusFollowsKind ==
    IF outcome.error \in DomainErrorKinds
        THEN response.status >= 400 /\ response.status <= 499
        ELSE response.status >= 500 /\ response.status <= 599

\* the field that carries the message of the error that was raised
MessageIn(field) ==
    /\ field \in DOMAIN response.body
    /\ response.body[field] = outcome.error

C18_ScopedCleanup ==
    (Responded /\ request.framework # "direct" /\ request.input_path # None) =>
        /\ request.input_path \notin files
        /\ request.endpoint = "annotate" => request.output_path \notin files

\* --------------------------------------------------------------------- C19
\* the calls detect_and_annotate made itself, in the order it made them
OwnCalls == SelectSeq(calls, LAMBDA c : c.face = -1)

AnnotateOrder == <<"load_image", "draw_detections", "makedirs", "save_image">>

Succeeded(op) == \E k \in 1..Len(OwnCalls) :
                    OwnCalls[k].op = op /\ ~IsRaise(OwnCalls[k].out)

DetectionFailed == ann_pc = "raised" /\ OwnCalls = <<>>

\* C19: detect_and_annotate makes its own calls only after detection has
\* returned a result, in the order load_image, draw_detections, makedirs,
\* save_image, each only after the one before succeeded; the output file
\* and a new directory exist only after save_image and makedirs succeeded;
\* what it returns is the result detection returned; when detection fails
\* it makes none of these calls, creates no directory and saves nothing.
C19_AnnotateOrder ==
    (request # None /\ request.framework = "direct") =>
        /\ Len(OwnCalls) <= 4
        /\ \A k \in 1..Len(OwnCalls) :
              /\ OwnCalls[k].op = AnnotateOrder[k]
              /\ k < Len(OwnCalls) => ~IsRaise(OwnCalls[k].out)
        /\ \A p \in CallIdx, q \in CallIdx :
              (calls[p].face = -1 /\ calls[q].face >= 0) => q < p
        /\ OwnCalls # <<>> =>
              (pc = "done" /\ result # 0 /\ result = Len(heap))
        /\ request.output_path \in files => Succeeded("save_image")
        /\ dirs # {"images", "uploads", "results"} => Succeeded("makedirs")
        /\ (ann_pc = "returned" /\ ~IsRaise(outcome)) =>
              /\ outcome = Ok(result)
              /\ Len(OwnCalls) = 4
              /\ request.output_path \in files
              /\ dirname(request.output_path) \in dirs
        /\ DetectionFailed =>
              /\ IsRaise(outcome)
              /\ request.output_path \notin files
              /\ dirs = {"images", "uploads", "results"}

\* a call with enrichment saved its output into a directory it created
C19_Witness ==
    /\ request # None
    /\ request.framework = "direct"
    /\ ann_pc = "returned"
    /\ outcome = Ok(result)
    /\ args.detect_emotions
    /\ Len(heap[result].faces) = 2
    /\ Len(OwnCalls) = 4
    /\ request.output_path.dir = "out"
    /\ request.output_path \in files
    /\ "out" \in dirs

\* --------------------------------------------------------------------- C21
CropOf(i) == crop(image, DetFace(i).bbox)

\* the crop of face i has a side below 10 px
BelowMinimum(i) == CropOf(i).shape[1] < 10 \/ CropOf(i).shape[2] < 10

\* the loop of line 83 has finished with face i
FaceDone(i) == i < idx \/ LoopOver

\* C21: a face whose crop has height or width below 10 px gets no analyzer
\* call and its original entry, without emotion and age, is what the updated
\* list holds at its position; a face whose crop is 10 px or more in both
\* dimensions goes through the analysis (a new entry is built for it, and
\* every requested analysis with an analyzer configured gets a call); the
\* faces after a skipped one are still processed, and the returned list has
\* the detector's length and order.
C21_SmallCropSkipped ==
    InAnalysis =>
        /\ \A i \in 1..DetCount :
              /\ BelowMinimum(i) =>
                    /\ FaceCalls(i) = {}
                    /\ FaceDone(i) =>
                          /\ updated_faces[i] = heap[det_result].faces[i]
                          /\ IsNone(heap[updated_faces[i]].emotion)
                          /\ IsNone(heap[updated_faces[i]].age)
              /\ (~BelowMinimum(i) /\ FaceDone(i)) =>
                    /\ updated_faces[i] # heap[det_result].faces[i]
                    /\ (args.detect_emotions /\ (cfg.emotion \/
                          (cfg.combined /\ args.detect_age))) =>
                          FaceCalls(i) # {}
                    /\ (args.detect_age /\ (cfg.age \/
                          (cfg.combined /\ args.detect_emotions))) =>
                          FaceCalls(i) # {}
        /\ LoopOver => Len(updated_faces) = DetCount
        /\ (pc = "done") =>
              /\ outcome.kind = "ok"
              /\ Len(heap[outcome.ref].faces) = DetCount
              /\ \A i \in 1..DetCount : OutFace(i).bbox = DetFace(i).bbox

\* a narrow face first, then a face of exactly 10 x 10: the first was
\* skipped and is returned as the detector made it, the second was analysed
C21_Witness ==
    /\ pc = "done"
    /\ InAnalysis
    /\ DetCount = 2
    /\ CropOf(1).shape = <<30, 5, 3>>
    /\ CropOf(2).shape = <<10, 10, 3>>
    /\ FaceCalls(1) = {}
    /\ heap[outcome.ref].faces[1] = heap[det_result].faces[1]
    /\ FaceCalls(2) # {}
    /\ ~IsNone(OutFace(2).emotion)

\* --------------------------------------------------------------------- C22
\* what the MTCNN backend emitted in the detector run of this call
Emitted == calls[CHOOSE p \in CallIdx : calls[p].op = "detect_faces"].out.emitted

\* the emitted detections with confidence at or above thr, in emission order
RECURSIVE AtOrAbove(_, _)
AtOrAbove(detections, thr) ==
    IF detections = <<>> THEN <<>>
    ELSE IF Head(detections).confidence >= thr
        THEN <<Head(detections)>> \o AtOrAbove(Tail(detections), thr)
        ELSE AtOrAbove(Tail(detections), thr)

\* face f is detection d: the box [x, y, w, h] as corners, the confidence
IsDetection(f, d) ==
    /\ f.bbox = <<d.box[1], d.box[2], d.box[1] + d.box[3], d.box[2] + d.box[4]>>
    /\ f.confidence = d.confidence

\* C22: the face detector's result holds exactly the backend detections whose
\* confidence is at or above the configured threshold (equality included),
\* in the backend's emission order, and the result detect returns holds the
\* same faces in the same order, with or without enrichment.
C22_FilterAndOrder ==
    DetectorReturned =>
        LET kept == AtOrAbove(Emitted, confidence_threshold)
        IN  /\ Len(heap[det_result].faces) = Len(kept)
            /\ \A i \in 1..Len(kept) : IsDetection(DetFace(i), kept[i])
            /\ (pc = "done") =>
                  /\ outcome.kind = "ok"
                  /\ Len(heap[outcome.ref].faces) = Len(kept)
                  /\ \A i \in 1..Len(kept) : IsDetection(OutFace(i), kept[i])

\* the backend emitted a face of confidence 0.5 and then one of 1.0 under a
\* threshold of 0.5: both are returned, enriched, in that order
C22_Witness ==
    /\ pc = "done"
    /\ InAnalysis
    /\ confidence_threshold = 5
    /\ Len(Emitted) = 2
    /\ Emitted[1].confidence = 5
    /\ Emitted[2].confidence = 10
    /\ outcome.kind = "ok"
    /\ outcome.ref # det_result
    /\ Len(heap[outcome.ref].faces) = 2
    /\ OutFace(1).confidence = 5
    /\ OutFace(2).confidence = 10

\* --------------------------------------------------------------------- C23
AnalyzerLeft == analyzer.pc \in {"returned", "raised"}

\* C23: when an analyzer call has returned or raised, the temporary file it
\* created for the face crop no longer exists, whichever way it left: normal
\* return, failed inference, or a failure converting or writing the crop.
C23_TempFileRemoved ==
    AnalyzerLeft => (analyzer.tmp_file = None \/ analyzer.tmp_file \notin files)

\* --------------------------------------------------------------------- C24
BoundaryYears == {18, 30, 50}

\* C24 as stated: at one of the bucket boundaries 18, 30, 50 the returned
\* range has its min above the estimated age or its max below it.
C24_Original ==
    \E a \in BoundaryYears :
        \E r \in {calculate_age_range(a * AgeScale),
                  combined_calculate_age_range(a * AgeScale)} :
            r[1] > a \/ r[2] < a

\* C24: for every estimated age within 0..120, the bucket boundaries 18, 30
\* and 50 included, the returned range contains the estimated age; the min
\* never exceeds the estimated age, and the max is below it only for an age
\* above 120, where it is the cap 120.
C24_BoundaryContained ==
    \A o \in AgeOutputs :
        /\ o.age_range[1] * AgeScale <= estimated_age
        /\ (estimated_age <= 120 * AgeScale) =>
              estimated_age <= o.age_range[2] * AgeScale
        /\ (WholeYears /\ Years \in BoundaryYears) =>
              (o.age_range[1] <= Years /\ Years <= o.age_range[2])
        /\ (estimated_age > o.age_range[2] * AgeScale) =>
              (estimated_age > 120 * AgeScale /\ o.age_range[2] = 120)

\* the boundary 18: the range starts at the estimated age itself
C24_Witness ==
    /\ WholeYears
    /\ Years = 18
    /\ ~IsNone(age_out)
    /\ age_out.age_range = <<18, 22>>

\* --------------------------------------------------------------------- C25
\* C25: for every estimated age a >= 0, ages above 120 included, the returned
\* range is a well-formed bracket: min >= 0, max <= 120 and min <= max.
C25_WellFormedRange ==
    \A o \in AgeOutputs :
        /\ o.age_range[1] >= 0
        /\ o.age_range[2] <= 120
        /\ o.age_range[1] <= o.age_range[2]

\* --------------------------------------------------------------------- C30
BothAgeOutputs == ~IsNone(age_out) /\ ~IsNone(combined_age_out)

\* C30: for every estimated age, DeepFaceAgeDetector._calculate_age_range and
\* DeepFaceCombinedDetector._calculate_age_range return the same (min, max),
\* so the AgeResult of the combined call and that of the individual call
\* built from one estimate are equal.
C30_SameAgeRange ==
    BothAgeOutputs =>
        /\ age_out.age_range = combined_age_out.age_range
        /\ age_out = combined_age_out

\* an estimate of 29.75 years, just under a boundary, through both analyzers
C30_Witness ==
    /\ BothAgeOutputs
    /\ estimated_age = 30 * AgeScale - 1
    /\ age_out.age_range = <<25, 33>>
    /\ combined_age_out.age_range = <<25, 33>>

\* --------------------------------------------------------------------- C26
EmotionCapable == {"detect_emotion", "detect_emotion_and_age"}

AgeCapable == {"detect_age", "detect_emotion_and_age"}

\* C26: the detector's faces carry no emotion and no age; a face of the
\* result (and of the list being built) carries an emotion only if emotions
\* were requested and an age only if age was requested, and when an analysis
\* is not requested no analyzer able to produce it (its own analyzer, the
\* combined analyzer) is called.
C26_OnlyAsRequested ==
    DetectorReturned =>
        /\ \A i \in 1..DetCount :
              IsNone(DetFace(i).emotion) /\ IsNone(DetFace(i).age)
        /\ ~args.detect_emotions =>
              /\ \A p \in CallIdx : calls[p].op \notin EmotionCapable
              /\ \A i \in 1..Len(updated_faces) :
                    IsNone(heap[updated_faces[i]].emotion)
              /\ (pc = "done" /\ outcome.kind = "ok") =>
                    \A i \in 1..Len(heap[outcome.ref].faces) :
                        IsNone(OutFace(i).emotion)
        /\ ~args.detect_age =>
              /\ \A p \in CallIdx : calls[p].op \notin AgeCapable
              /\ \A i \in 1..Len(updated_faces) :
                    IsNone(heap[updated_faces[i]].age)
              /\ (pc = "done" /\ outcome.kind = "ok") =>
                    \A i \in 1..Len(heap[outcome.ref].faces) :
                        IsNone(OutFace(i).age)

\* emotions only, with all three analyzers configured: the one call for
\* face 1 is the emotion analyzer's and the face has an emotion and no age
C26_Witness ==
    /\ pc = "done"
    /\ InAnalysis
    /\ args.detect_emotions
    /\ ~args.detect_age
    /\ cfg.combined /\ cfg.emotion /\ cfg.age
    /\ Cardinality(FaceCalls(1)) = 1
    /\ CallsOf(1, "detect_emotion") # {}
    /\ ~IsNone(OutFace(1).emotion)
    /\ IsNone(OutFace(1).age)

\* --------------------------------------------------------------------- C27
\* the collaborator calls made inside the try block that raised
RaisedInTry ==
    {p \in CallIdx : /\ calls[p].op \in {"load_image", "detect_faces"}
                     /\ IsRaise(calls[p].out)}

\* C27: an exception raised inside the try block of detect_faces_in_image
\* reaches the caller as InvalidImageError unless it is an InvalidImageError
\* or a FileError, which pass unchanged; so the detector's ProcessingError
\* and ModelNotLoadedError never reach the caller under their own kind, and
\* the only kinds that leave detect are FileError, InvalidImageError and the
\* range error of the threshold setter.
C27_ErrorsWrapped ==
    (pc = "done" /\ caller # "none") =>
        /\ \A p \in RaisedInTry :
              /\ outcome.kind = "raise"
              /\ (calls[p].out.error \in {"InvalidImageError", "FileError"}) =>
                    outcome.error = calls[p].out.error
              /\ (calls[p].out.error \notin {"InvalidImageError", "FileError"}) =>
                    outcome.error = "InvalidImageError"
        /\ (outcome.kind = "raise") =>
              /\ outcome.error \in {"FileError", "InvalidImageError", "ValueError"}
              /\ (outcome.error = "ValueError") =>
                    /\ ~IsNone(args.confidence_threshold)
                    /\ (args.confidence_threshold.v < 0
                          \/ args.confidence_threshold.v > 10)
                    /\ RaisedInTry = {}

\* the face detector raised ModelNotLoadedError and the caller got
\* InvalidImageError
C27_Witness ==
    /\ pc = "done"
    /\ \E p \in RaisedInTry :
          /\ calls[p].op = "detect_faces"
          /\ calls[p].out.error = "ModelNotLoadedError"
    /\ outcome = Raise("InvalidImageError")

\* --------------------------------------------------------------------- C28
ThresholdSupplied == ~IsNone(idem.threshold)

SuppliedInRange ==
    ThresholdSupplied /\ 0 <= idem.threshold.v /\ idem.threshold.v <= 10

FirstCallFailed == idem.first # None /\ idem.first.outcome.kind = "raise"

\* C28: the call leaves the detector with the supplied threshold when the
\* path exists and a threshold within [0, 1] is supplied, whether the call
\* then returns or fails, and with the threshold it found in every other
\* case (missing path, threshold out of range, no threshold); the later call
\* without a threshold leaves it as it is and is filtered with it.
C28_ThresholdKept ==
    /\ (idem.first = None) => confidence_threshold = idem.before
    /\ (idem.first # None) =>
          /\ idem.first.threshold =
                IF idem.image_path = ExistingPath /\ SuppliedInRange
                    THEN idem.threshold.v
                    ELSE idem.before
          /\ (idem.second = None) => confidence_threshold = idem.first.threshold
    /\ (idem.second # None) =>
          /\ idem.second.threshold = idem.first.threshold
          /\ confidence_threshold = idem.first.threshold
          /\ (idem.second.outcome.kind = "result") =>
                LET kept == AtOrAbove(idem.later_backend.items,
                                      idem.first.threshold)
                    got == idem.second.outcome.value.faces
                IN  /\ Len(got) = Len(kept)
                    /\ \A i \in 1..Len(kept) : IsDetection(got[i], kept[i])

\* a call that set 1.0 over a stored 0.5 and then failed on the image; the
\* later call without a threshold dropped a face of confidence 0.5
C28_Witness ==
    /\ idem # None
    /\ idem.second # None
    /\ idem.before = 5
    /\ idem.threshold = Float(10)
    /\ idem.first.outcome = Raise("InvalidImageError")
    /\ confidence_threshold = 10
    /\ idem.second.outcome.kind = "result"
    /\ Len(idem.later_backend.items) = 1
    /\ idem.later_backend.items[1].confidence = 5
    /\ idem.second.outcome.value.faces = <<>>

\* --------------------------------------------------------------------- C29
\* the Flask detect-and-annotate handler answered a request for which it
\* stored no file
FlaskAnnotateRejected ==
    /\ Responded
    /\ request.framework = "flask"
    /\ request.endpoint = "annotate"
    /\ request.input_path = None

RejectMessages ==
    {"No image file provided", "No file selected",
     "Confidence threshold must be between 0.0 and 1.0",
     "Unsupported image format"}

\* C29: a request the Flask detect-and-annotate handler rejects before any
\* file is stored is answered with the 400 response the handler body chose
\* and its `error` message; the cleanup step neither raises nor replaces it.
C29_CleanupKeepsResponse ==
    FlaskAnnotateRejected =>
        /\ response.status = 400
        /\ response.body.error \in RejectMessages
        /\ ~request.has_image =>
              response.body.error = "No image file provided"
        /\ (request.has_image /\ request.filename = <<>>) =>
              response.body.error = "No file selected"

====
